---- MODULE Spec2Model ----
(***************************************************************************)
(* Payload ingestion, status reconciliation and conversation views of the  *)
(* WhatsApp-clone backend: the routes of backend/routes/api.js (/webhook,  *)
(* /conversations, /messages) with the events they emit, the payload       *)
(* script (backend/scripts/process_payloads.js) and the Message model      *)
(* (models/Message.js, Mongoose schema and pre-save hook).                 *)
(*                                                                         *)
(* A payload or message-like object is a record holding exactly the fields *)
(* it carries; an absent field and an empty string are both falsy in the   *)
(* code and are both read as Absent.                                       *)
(***************************************************************************)
EXTENDS Integers, Sequences, FiniteSets, TLC

\* ------------------------------------------------------------------ bounds
MaxStore == 3   \* stored messages the model lets the collection grow to
MaxBatch == 3   \* entries of a messages collection
MaxTime  == 1   \* ticks of the clock behind new Date() / Date.now()
MaxWire  == 3   \* socket emits the browser has made while earlier ones are unhandled

\* ------------------------------------------------------------- JS helpers
Absent == ""            \* undefined / "" : falsy string-valued field
Unset  == 0 - 1         \* a Date path the document does not hold

F(p, f) == IF f \in DOMAIN p THEN p[f] ELSE Absent

\* Instants and numeric timestamps are counted in units of 10^6 (an instant
\* is milliseconds since the epoch / 10^6); 0 stands for an absent (falsy)
\* timestamp field.
Timestamp(p) == IF "timestamp" \in DOMAIN p THEN p.timestamp ELSE 0

\* a || b || c ... over string-valued operands
FirstOf(s) ==
    IF \E i \in 1..Len(s) : s[i] # Absent
    THEN s[CHOOSE i \in 1..Len(s) : s[i] # Absent /\ \A j \in 1..(i-1) : s[j] = Absent]
    ELSE Absent

\* ------------------------------------------------------ schema (Message.js)
FromEnum        == {"me", "remote"}
ContentTypeEnum == {"text", "image", "audio", "video", "document",
                    "location", "contact", "sticker"}
StatusEnum      == {"sent", "delivered", "read", "pending", "failed"}

\* The paths the schema declares, among those an update of the code names.
\* The schema declares neither read_at nor delivered_at, and Mongoose's
\* default strict mode drops undeclared paths from updates and creates.
SchemaPaths == {"wa_id", "name", "number", "msg_id", "meta_msg_id", "from", "to",
                "content", "content_type", "media_url", "media_mime_type",
                "timestamp", "status", "is_deleted"}

\* `msg_${Date.now()}_${random}` : a fresh identifier per saved document
GenMsgIds == <<"msg_1", "msg_2", "msg_3", "msg_4", "msg_5", "msg_6", "msg_7", "msg_8",
              "msg_9", "msg_10", "msg_11", "msg_12", "msg_13", "msg_14", "msg_15", "msg_16">>
GenMsgId(n) == GenMsgIds[n]
\* Math.random().toString(36).substr(2, 9): the strings a call can return
RandomDraws == 1..(MaxStore + 1)
\* `msg_${Date.now()}_${Math.random().toString(36).substr(2, 9)}`
DrawnMsgId(t, r) == GenMsgIds[Cardinality(RandomDraws) * t + r]

\* ------------------------------------------ script: process_payloads.js
FallbackJson == "{json}"     \* JSON.stringify(msg).substring(0, 1000), never empty
MediaMarker(t) == IF t = "image" THEN "[clip] image"
                  ELSE IF t = "message" THEN "[clip] message"
                  ELSE "[clip] other"

determineMessageDirection(msg, payload) ==
    IF F(msg, "from") = "me" \/ F(payload, "from") = "me" THEN "me"
    ELSE IF F(msg, "direction") = "outbound" \/ F(payload, "direction") = "outbound" THEN "me"
    ELSE IF F(msg, "sender") = "me" \/ F(payload, "sender") = "me" THEN "me"
    ELSE "remote"

extractMessageContent(msg) ==
    FirstOf(<< F(msg, "text_body"), F(msg, "body_text"), F(msg, "content"),
               F(msg, "text"), F(msg, "caption"),
               IF F(msg, "type") # Absent /\ F(msg, "type") # "text"
                 THEN MediaMarker(F(msg, "type")) ELSE Absent,
               FallbackJson >>)

determineContentType(msg) ==
    IF "image" \in DOMAIN msg THEN "image"
    ELSE IF "audio" \in DOMAIN msg THEN "audio"
    ELSE IF "video" \in DOMAIN msg THEN "video"
    ELSE IF "document" \in DOMAIN msg THEN "document"
    ELSE IF "location" \in DOMAIN msg THEN "location"
    ELSE IF "contacts" \in DOMAIN msg THEN "contact"
    ELSE IF "sticker" \in DOMAIN msg THEN "sticker"
    ELSE "text"

\* the later spreads win: document over video over audio over image
MediaOverride(msg, t) ==
    IF "document" \in DOMAIN msg THEN "document"
    ELSE IF "video" \in DOMAIN msg THEN "video"
    ELSE IF "audio" \in DOMAIN msg THEN "audio"
    ELSE IF "image" \in DOMAIN msg THEN "image"
    ELSE t

\* the medium sub-object whose spread comes last among those present
MediaOf(msg) ==
    IF "document" \in DOMAIN msg THEN msg.document
    ELSE IF "video" \in DOMAIN msg THEN msg.video
    ELSE IF "audio" \in DOMAIN msg THEN msg.audio
    ELSE IF "image" \in DOMAIN msg THEN msg.image
    ELSE [link |-> Absent]

\* 1e12, the seconds / milliseconds threshold, and the factor seconds -> ms
MsThreshold == 1000000
MsPerSecond == 1000

\* timestamp fields that hold a string: one that is no calendar timestamp
\* (such as "1700000000"), and the ISO rendering of the instant IsoInstant
NotADate    == 0 - 2
IsoDate     == 0 - 3
IsoInstant  == 1700000
\* the Date object new Date(<a string that does not parse>) returns
InvalidDate == 0 - 4

\* new Date(v): a number is taken as milliseconds, a string is parsed
NewDate(v) ==
    IF v = NotADate THEN InvalidDate
    ELSE IF v = IsoDate THEN IsoInstant
    ELSE v

\* 0: null (absent); an Invalid Date is an object, hence truthy
parseTimestamp(timestamp) ==
    IF timestamp = 0 THEN 0
    ELSE IF timestamp \in {NotADate, IsoDate} THEN NewDate(timestamp)
    ELSE IF timestamp < MsThreshold THEN NewDate(timestamp * MsPerSecond)
    ELSE NewDate(timestamp)

createMessageDocument(msg, payload, t) ==
    [ wa_id        |-> FirstOf(<< F(msg, "wa_id"), F(msg, "from"),
                                  F(payload, "wa_id"), F(payload, "from"), "unknown" >>),
      msg_id       |-> FirstOf(<< F(msg, "id"), F(msg, "msg_id"), F(msg, "message_id") >>),
      meta_msg_id  |-> FirstOf(<< F(msg, "meta_msg_id"), F(msg, "wamid") >>),
      from         |-> determineMessageDirection(msg, payload),
      content      |-> extractMessageContent(msg),
      content_type |-> MediaOverride(msg, FirstOf(<< F(msg, "type"), F(msg, "content_type"),
                                                     determineContentType(msg) >>)),
      media_url       |-> FirstOf(<< F(MediaOf(msg), "link"), F(MediaOf(msg), "url") >>),
      media_mime_type |-> F(MediaOf(msg), "mime_type"),
      timestamp    |-> LET parsed == parseTimestamp(IF Timestamp(msg) # 0 THEN Timestamp(msg)
                                                    ELSE Timestamp(payload)) IN
                       IF parsed # 0 THEN parsed ELSE t,
      status       |-> FirstOf(<< F(msg, "status"), F(payload, "status"), "sent" >>) ]

\* ------------------------------------------------- route: POST /webhook
\* m.text given as an object ({body: ...}) is not a string: the String path
\* `content` cannot cast it.
NotAString == "[object]"

WebhookDoc(m, payload, t) ==
    [ wa_id        |-> FirstOf(<< F(m, "wa_id"), F(payload, "wa_id"), F(m, "from") >>),
      msg_id       |-> FirstOf(<< F(m, "id"), F(m, "msg_id"), F(m, "message_id") >>),
      meta_msg_id  |-> F(m, "meta_msg_id"),
      from         |-> FirstOf(<< F(m, "from"), F(m, "sender"), "remote" >>),
      content      |-> IF F(m, "text_body") # Absent THEN NotAString
                       ELSE FirstOf(<< F(m, "text"), F(m, "body_text"), F(m, "content") >>),
      content_type |-> FirstOf(<< F(m, "content_type"), "text" >>),
      \* new Date(m.timestamp): a number is taken as milliseconds
      timestamp    |-> IF Timestamp(m) # 0 THEN NewDate(Timestamp(m)) ELSE t,
      status       |-> FirstOf(<< F(m, "status"), "sent" >>) ]

FallbackDoc(payload, t) ==
    [ wa_id        |-> FirstOf(<< F(payload, "wa_id"), F(payload, "from"), "unknown" >>),
      msg_id       |-> Absent,
      meta_msg_id  |-> Absent,
      from         |-> "remote",
      content      |-> FallbackJson,
      content_type |-> "text",
      timestamp    |-> t,
      status       |-> "sent" ]

\* ------------------------------------------------ model: Message.create
\* Schema validators (an Invalid Date cannot be cast to the Date path), then
\* the pre('save') hook's empty-text check
\* (whitespace-only content is not modelled: content is empty or it is not).
Valid(doc) ==
    /\ doc.wa_id # Absent
    /\ doc.timestamp # InvalidDate
    /\ doc.from \in FromEnum
    /\ doc.content # Absent
    /\ doc.content # NotAString
    /\ doc.content_type \in ContentTypeEnum
    /\ doc.status \in StatusEnum

\* pre('save'): generate msg_id when the document has neither identifier
PreSave(doc, id) ==
    IF doc.msg_id = Absent /\ doc.meta_msg_id = Absent
    THEN [doc EXCEPT !.msg_id = GenMsgId(id)]
    ELSE doc

\* the stored document: schema defaults and timestamps: true
Stored(doc, id, t) ==
    [ _id |-> id, wa_id |-> doc.wa_id, msg_id |-> doc.msg_id,
      meta_msg_id |-> doc.meta_msg_id, from |-> doc.from,
      content |-> doc.content, content_type |-> doc.content_type,
      media_url |-> F(doc, "media_url"), media_mime_type |-> F(doc, "media_mime_type"),
      timestamp |-> doc.timestamp, status |-> doc.status,
      is_deleted |-> FALSE, read_at |-> Unset, delivered_at |-> Unset,
      updatedAt |-> t ]

\* (mutant) msg_id under a unique index: a second document with a stored
\* msg_id is rejected
CreateUnique(store, id, doc, t) ==
    IF Valid(doc) /\ ~\E i \in 1..Len(store) :
                         store[i].msg_id = PreSave(doc, id).msg_id /\ store[i].msg_id # Absent
    THEN [ok |-> TRUE, store |-> Append(store, Stored(PreSave(doc, id), id, t)), nextId |-> id + 1]
    ELSE [ok |-> FALSE, store |-> store, nextId |-> id]

\* the collection has no unique index: a valid document is always appended
Create(store, id, doc, t) ==
    IF Valid(doc)
    THEN [ok |-> TRUE, store |-> Append(store, Stored(PreSave(doc, id), id, t)), nextId |-> id + 1]
    ELSE [ok |-> FALSE, store |-> store, nextId |-> id]

\* ------------------------------------------------ model: Message.updateMany
\* (mutant) an update that also rewrites the message's timestamp
ApplyUpdateRetimed(doc, update, t) ==
    [f \in DOMAIN doc |-> IF f \in DOMAIN update /\ f \in {"status"} THEN update[f]
                          ELSE IF f \in {"updatedAt", "timestamp"} THEN t
                          ELSE doc[f]]

\* strict mode: undeclared paths of the update are dropped
StrictCast(update) == [f \in (DOMAIN update) \cap SchemaPaths |-> update[f]]

ApplyUpdate(doc, update, t) ==
    LET u == StrictCast(update) IN
    [f \in DOMAIN doc |-> IF f \in DOMAIN u THEN u[f]
                          ELSE IF f = "updatedAt" THEN t
                          ELSE doc[f]]

\* idxs: the positions the query matches
UpdateMany(store, idxs, update, t) ==
    LET new == [i \in 1..Len(store) |->
                  IF i \in idxs THEN ApplyUpdate(store[i], update, t) ELSE store[i]] IN
    [ store    |-> new,
      matched  |-> Cardinality(idxs),
      modified |-> Cardinality({i \in idxs : new[i] # store[i]}) ]

\* { $or: [{ msg_id: id }, { meta_msg_id: id }] }
MatchId(store, id) ==
    {i \in 1..Len(store) : store[i].msg_id = id \/ store[i].meta_msg_id = id}

\* the 24-hex-digit string of the n-th _id, and mongoose.Types.ObjectId.isValid
ObjectIds == << "oid_1", "oid_2", "oid_3", "oid_4", "oid_5", "oid_6", "oid_7", "oid_8" >>
ObjectIdOf(n) == ObjectIds[n]
IsValidObjectId(id) == \E n \in 1..Len(ObjectIds) : ObjectIds[n] = id

\* the script's query: the same $or, with { _id: id } added when id is
\* shaped like an ObjectId
ScriptMatchId(store, id) ==
    {i \in 1..Len(store) : \/ store[i].msg_id = id
                           \/ store[i].meta_msg_id = id
                           \/ IsValidObjectId(id) /\ ObjectIdOf(store[i]._id) = id}

\* an update whose status is not a string cannot be cast to the String path:
\* updateMany rejects with a CastError
CastFails(update) == update.status = NotAString

\* ------------------------------------------ script: dedup and ingestion
\* (mutant) the conditions pushed without testing that the identifier is there
DedupConditionsUnguarded(msg) ==
    { <<"msg_id", F(msg, "id")>>, <<"msg_id", F(msg, "msg_id")>>,
      <<"meta_msg_id", F(msg, "meta_msg_id")>>, <<"meta_msg_id", F(msg, "wamid")>> }

\* the $or conditions findExistingMessage builds, as <<path, value>>
DedupConditions(msg) ==
    {c \in { <<"msg_id", F(msg, "id")>>, <<"msg_id", F(msg, "msg_id")>>,
             <<"meta_msg_id", F(msg, "meta_msg_id")>>, <<"meta_msg_id", F(msg, "wamid")>> } :
        c[2] # Absent}

\* 0: no conditions or no match; else the first matching document (findOne)
findExistingMessage(msg, store) ==
    LET conds == DedupConditions(msg)
        hits  == {i \in 1..Len(store) : \E c \in conds : store[i][c[1]] = c[2]} IN
    IF conds = {} \/ hits = {} THEN 0
    ELSE CHOOSE i \in hits : \A j \in hits : i <= j

NoResults == [inserted |-> 0, updated |-> 0, errors |-> 0, duplicates |-> 0]

\* one iteration of processMessages' loop after its existence check returned
\* `existing`; st = [store, nextId, res]
ProcessChecked(st, existing, msg, payload, t) ==
    IF existing # 0
    THEN [st EXCEPT !.res.duplicates = @ + 1]
    ELSE LET c == Create(st.store, st.nextId, createMessageDocument(msg, payload, t), t) IN
         IF c.ok
         THEN [store |-> c.store, nextId |-> c.nextId,
               res |-> [st.res EXCEPT !.inserted = @ + 1]]
         ELSE [st EXCEPT !.res.errors = @ + 1]

\* check and insert with nothing in between
ProcessOneMessage(st, msg, payload, t) ==
    ProcessChecked(st, findExistingMessage(msg, st.store), msg, payload, t)

RECURSIVE ProcessMessagesFrom(_, _, _, _, _)
ProcessMessagesFrom(st, msgs, payload, t, i) ==
    IF i > Len(msgs) THEN st
    ELSE ProcessMessagesFrom(ProcessOneMessage(st, msgs[i], payload, t), msgs, payload, t, i + 1)

MessagesOf(payload) ==
    IF "messages" \in DOMAIN payload THEN payload.messages
    ELSE IF "message" \in DOMAIN payload THEN << payload.message >>
    ELSE << payload >>

processMessages(st, payload, t) ==
    ProcessMessagesFrom(st, MessagesOf(payload), payload, t, 1)

\* ------------------------------------------ script: status updates
StatusesOf(payload) ==
    IF "statuses" \in DOMAIN payload THEN payload.statuses ELSE << payload >>

ScriptStatusUpdate(status, t) ==
    IF status = "read" THEN [status |-> status, read_at |-> t]
    ELSE IF status = "delivered" THEN [status |-> status, delivered_at |-> t]
    ELSE [status |-> status]

\* the identifier and the status an entry of the statuses resolves to
ScriptStatusIdOf(su, payload) ==
    FirstOf(<< F(su, "id"), F(su, "msg_id"), F(su, "meta_msg_id"), F(payload, "id") >>)
ScriptStatusOf(su, payload) ==
    FirstOf(<< F(su, "status"), F(su, "status_update"), F(payload, "status"), "delivered" >>)

\* the entry's updateMany throws
StatusThrows(su, payload) ==
    /\ ScriptStatusIdOf(su, payload) # Absent
    /\ CastFails(ScriptStatusUpdate(ScriptStatusOf(su, payload), 0))

\* one iteration of the loop that does not throw
ProcessOneStatus(st, su, payload, t) ==
    LET idToFind == ScriptStatusIdOf(su, payload)
        status   == ScriptStatusOf(su, payload)
        u        == UpdateMany(st.store, ScriptMatchId(st.store, idToFind),
                               ScriptStatusUpdate(status, t), t) IN
    IF idToFind = Absent THEN st
    ELSE [st EXCEPT !.store = u.store, !.res.updated = @ + u.modified]

\* the try encloses the whole loop: an updateMany that throws ends it, and
\* the catch counts one error
RECURSIVE ProcessStatusesFrom(_, _, _, _, _)
ProcessStatusesFrom(st, sus, payload, t, i) ==
    IF i > Len(sus) THEN st
    ELSE IF StatusThrows(sus[i], payload) THEN [st EXCEPT !.res.errors = @ + 1]
    ELSE ProcessStatusesFrom(ProcessOneStatus(st, sus[i], payload, t), sus, payload, t, i + 1)

processStatusUpdates(st, payload, t) ==
    ProcessStatusesFrom(st, StatusesOf(payload), payload, t, 1)

\* ------------------------------------------ script: fallback and dispatch
processSingleMessage(st, payload, t) ==
    IF FirstOf(<< F(payload, "id"), F(payload, "message_id"),
                  F(payload, "content"), F(payload, "text") >>) # Absent
    THEN ProcessOneMessage(st, payload, payload, t)
    ELSE [st EXCEPT !.res.errors = @ + 1]

IsMessagePayload(payload) ==
    "messages" \in DOMAIN payload \/ F(payload, "type") = "message" \/ "message" \in DOMAIN payload

IsStatusPayload(payload) ==
    F(payload, "type") = "status" \/ F(payload, "status_update") # Absent
        \/ "statuses" \in DOMAIN payload

\* (mutant) the status test before the message test
processPayloadStatusFirst(st, payload, t) ==
    IF IsStatusPayload(payload) THEN processStatusUpdates(st, payload, t)
    ELSE IF IsMessagePayload(payload) THEN processMessages(st, payload, t)
    ELSE IF "contacts" \in DOMAIN payload THEN st
    ELSE processSingleMessage(st, payload, t)

\* A payload that is a JSON array is the record [array |-> its elements]: it
\* has none of the fields the dispatch tests.
IsArray(payload) == "array" \in DOMAIN payload

RECURSIVE processPayload(_, _, _)

\* for (const item of payload) await processPayload(item, filename): each call
\* counts into a results object of its own, and what it returns is dropped
RECURSIVE ProcessItemsFrom(_, _, _, _)
ProcessItemsFrom(st, items, t, i) ==
    IF i > Len(items) THEN st
    ELSE LET r == processPayload([store |-> st.store, nextId |-> st.nextId,
                                  res |-> NoResults], items[i], t) IN
         ProcessItemsFrom([st EXCEPT !.store = r.store, !.nextId = r.nextId], items, t, i + 1)

processPayload(st, payload, t) ==
    IF IsMessagePayload(payload) THEN processMessages(st, payload, t)
    ELSE IF IsStatusPayload(payload) THEN processStatusUpdates(st, payload, t)
    ELSE IF "contacts" \in DOMAIN payload THEN st
    ELSE IF IsArray(payload) THEN ProcessItemsFrom(st, payload.array, t, 1)
    ELSE processSingleMessage(st, payload, t)

\* ------------------------------------------------- events (socket.io)
\* the positions idxs of the collection, in collection order
InOrder(store, idxs) == SelectSeq([i \in 1..Len(store) |-> i], LAMBDA i : i \in idxs)

\* req.io.emit("message:new", m); req.io.to(`chat_${m.wa_id}`).emit("message:new", m)
\* (mutant) the insert without its emissions
NoMessageEvents(m) == << >>

NewMessageEvents(m) ==
    << [event |-> "message:new", to |-> "all", message |-> m],
       [event |-> "message:new", to |-> "room", message |-> m] >>

StatusEvent(to, m, status) ==
    [event |-> "message:status_update", to |-> to, messageId |-> m._id,
     status |-> status, wa_id |-> m.wa_id]

\* the forEach over the messages Message.find(query) returned: one broadcast
\* and one room emission per message found
WebhookStatusEvents(store, idxs, status) ==
    LET q == InOrder(store, idxs) IN
    [k \in 1..(2 * Len(q)) |->
        StatusEvent(IF k % 2 = 1 THEN "all" ELSE "room", store[q[(k + 1) \div 2]], status)]

\* the forEach of the mark-read route: one broadcast per message found
MarkReadEvents(store, idxs) ==
    LET q == InOrder(store, idxs) IN
    [k \in 1..Len(q) |-> StatusEvent("all", store[q[k]], "read")]

\* ------------------------------------------------- route: POST /webhook
WebhookMessagesOf(payload) ==
    IF "messages" \in DOMAIN payload THEN payload.messages ELSE << payload >>

\* the message loop: st = [store, nextId, saved, failed, events]; a rejected
\* create throws out of the loop into the route's catch
RECURSIVE WebhookMessagesFrom(_, _, _, _, _)
WebhookMessagesFrom(st, msgs, payload, t, i) ==
    IF i > Len(msgs) \/ st.failed THEN st
    ELSE LET c == Create(st.store, st.nextId, WebhookDoc(msgs[i], payload, t), t) IN
         WebhookMessagesFrom(
            IF c.ok THEN [store |-> c.store, nextId |-> c.nextId,
                          saved |-> st.saved + 1, failed |-> FALSE,
                          events |-> st.events \o NewMessageEvents(c.store[Len(c.store)])]
            ELSE [st EXCEPT !.failed = TRUE],
            msgs, payload, t, i + 1)

\* (mutant) no catch around the handler: a rejected repository call leaves
\* the request without a response
ResponseUncaught(code, inserted, matched, modified) ==
    [code |-> IF code = 500 THEN Unset ELSE code,
     inserted |-> inserted, matched |-> matched, modified |-> modified]

Response(code, inserted, matched, modified) ==
    [code |-> code, inserted |-> inserted, matched |-> matched, modified |-> modified]

\* the identifier and the status a single status payload resolves to
StatusIdOf(payload) ==
    FirstOf(<< F(payload, "id"), F(payload, "msg_id"), F(payload, "meta_msg_id") >>)
StatusOf(payload) ==
    FirstOf(<< F(payload, "status"), F(payload, "status_update"), "delivered" >>)

\* the whole handler: [store, nextId, res, events]
WebhookHandler(store, nextId, payload, t) ==
    LET idToFind == FirstOf(<< F(payload, "id"), F(payload, "msg_id"), F(payload, "meta_msg_id") >>)
        status   == FirstOf(<< F(payload, "status"), F(payload, "status_update"), "delivered" >>) IN
    IF F(payload, "type") = "message" \/ "messages" \in DOMAIN payload
    THEN LET r == WebhookMessagesFrom([store |-> store, nextId |-> nextId, saved |-> 0,
                                       failed |-> FALSE, events |-> << >>],
                                      WebhookMessagesOf(payload), payload, t, 1) IN
         [store |-> r.store, nextId |-> r.nextId,
          res |-> IF r.failed THEN Response(500, Unset, Unset, Unset)
                  ELSE Response(200, r.saved, Unset, Unset),
          events |-> r.events]
    ELSE IF (F(payload, "type") = "status" \/ F(payload, "status_update") # Absent)
            /\ idToFind # Absent /\ CastFails([status |-> status])
    THEN [store |-> store, nextId |-> nextId, res |-> Response(500, Unset, Unset, Unset),
          events |-> << >>]
    ELSE IF (F(payload, "type") = "status" \/ F(payload, "status_update") # Absent)
            /\ idToFind # Absent
    THEN LET u == UpdateMany(store, MatchId(store, idToFind), [status |-> status], t) IN
         [store |-> u.store, nextId |-> nextId,
          res |-> Response(200, Unset, u.matched, u.modified),
          events |-> WebhookStatusEvents(u.store, MatchId(u.store, idToFind), status)]
    ELSE IF FirstOf(<< F(payload, "id"), F(payload, "message_id") >>) # Absent
    THEN LET c == Create(store, nextId, FallbackDoc(payload, t), t) IN
         [store |-> c.store, nextId |-> c.nextId,
          res |-> IF c.ok THEN Response(200, Unset, Unset, Unset)
                  ELSE Response(500, Unset, Unset, Unset),
          events |-> IF c.ok THEN << NewMessageEvents(c.store[Len(c.store)])[1] >> ELSE << >>]
    ELSE [store |-> store, nextId |-> nextId, res |-> Response(400, Unset, Unset, Unset),
          events |-> << >>]

\* --------------------------------------- routes: mark read, fetch a page
\* PATCH /messages/:wa_id/read
MarkReadMatch(store, wa) ==
    {i \in 1..Len(store) : store[i].wa_id = wa /\ store[i].from = "remote"
                           /\ store[i].status \in {"sent", "delivered"}}

\* the messages the mark-read route then looks up to emit: { wa_id, from, status: "read" }
MarkReadFound(store, wa) ==
    {i \in 1..Len(store) : store[i].wa_id = wa /\ store[i].from = "remote"
                           /\ store[i].status = "read"}

\* { $sort: { timestamp: -1 } } and .sort({ timestamp: -1 }): the orders of
\* the collection the sort may produce (documents of equal timestamp come in
\* either order)
\* (mutant) no $sort stage: the collection's own order
InsertionOrder(docs) == {[i \in 1..Len(docs) |-> i]}

SortedByTimestamp(docs) ==
    {o \in [1..Len(docs) -> 1..Len(docs)] :
        /\ \A i, j \in 1..Len(docs) : i # j => o[i] # o[j]
        /\ \A i \in 1..(Len(docs) - 1) : docs[o[i]].timestamp >= docs[o[i + 1]].timestamp}

\* GET /messages/:wa_id?page=&limit= : the defaults of the query parameters
DefaultLimit == 50
PageParam(q)  == IF "page" \in DOMAIN q THEN q.page ELSE 1
LimitParam(q) == IF "limit" \in DOMAIN q THEN q.limit ELSE DefaultLimit

\* find({ wa_id }).sort({ timestamp: -1 }).limit(limit).skip(skip) over the
\* sorted collection `order`, then messages.reverse(); a `before` parameter
\* is not read
FetchPage(docs, order, q) ==
    LET ranked == SelectSeq(order, LAMBDA i : docs[i].wa_id = q.wa_id)
        skip   == (PageParam(q) - 1) * LimitParam(q)
        last   == IF skip + LimitParam(q) < Len(ranked) THEN skip + LimitParam(q)
                  ELSE Len(ranked)
        page   == IF skip < Len(ranked) THEN SubSeq(ranked, skip + 1, last) ELSE << >> IN
    [k \in 1..Len(page) |-> docs[page[Len(page) + 1 - k]]]

\* GET /messages/:wa_id also marks the conversation read
FetchMatch(store, wa) ==
    {i \in 1..Len(store) : store[i].wa_id = wa /\ store[i].from = "remote"
                           /\ store[i].status # "read"}

\* ------------------------------------------------------------ the inputs
Empty == [f \in {} |-> Absent]
Field(f, x) == [g \in {f} |-> x]

Ids        == {"a", "b"}
IdFields   == {"id", "msg_id", "message_id", "meta_msg_id", "wamid"}
Party      == "55511"

\* identifier part: none, or "a" under any one identifier field
IdParts    == {Empty} \cup {Field(f, "a") : f \in IdFields}
\* conversation part: none, a sender, or a party id
PartyParts == {Empty, Field("from", Party), Field("wa_id", Party)}

MsgLikes   == {i @@ q @@ [text |-> "hi"] : i \in IdParts, q \in PartyParts}

\* the entries of the longer messages collections
BatchItems == {[id |-> "a", wa_id |-> Party, text |-> "hi"],
               [id |-> "b", text |-> "hi"],
               [wa_id |-> Party, text |-> "hi"]}
\* (a collection longer than three entries repeats its third entry)
Batches    == {<< m >> : m \in MsgLikes}
                  \cup {b \in [1..MaxBatch -> BatchItems] : \A k \in 4..MaxBatch : b[k] = b[3]}

MessagePayloads  == {[messages |-> b] : b \in Batches}
                       \cup {[type |-> "message"] @@ m :
                               m \in {n \in MsgLikes : DOMAIN n \subseteq {"id", "wa_id", "text"}}}
FallbackPayloads == {[id |-> "a", text |-> "hi"], [id |-> "a", from |-> Party, text |-> "hi"],
                     [message_id |-> "a", text |-> "hi"], [text |-> "hi"], Empty}
IngestPayloads   == MessagePayloads \cup FallbackPayloads

\* {messages: [{from: "55511", text: {body: "hi"}, timestamp: 1700000000}]}
EndToEndPayload  == [messages |-> << [from |-> Party, text_body |-> "hi", timestamp |-> 1700] >>]
\* messages without any text field: a media message, and a bare one
TextlessPayloads == {[messages |-> << [wa_id |-> Party, type |-> "image"] >>],
                     [messages |-> << [id |-> "a", wa_id |-> Party] >>]}
\* messages carrying medium sub-objects and no type field
Image    == [link |-> "i.jpg", mime_type |-> "image/jpeg"]
Audio    == [url |-> "a.ogg", mime_type |-> "audio/ogg"]
Video    == [link |-> "v.mp4", url |-> "v2.mp4", mime_type |-> "video/mp4"]
Document == [url |-> "d.pdf", mime_type |-> "application/pdf"]
MediaPayloads == {[messages |-> << [wa_id |-> Party, image |-> Image] >>],
                  [messages |-> << [wa_id |-> Party, image |-> Image, document |-> Document] >>],
                  [messages |-> << [wa_id |-> Party, audio |-> Audio, video |-> Video] >>]}
\* messages whose timestamp is a string
DatePayloads  == {[messages |-> << [wa_id |-> Party, text |-> "hi", timestamp |-> NotADate] >>],
                  [messages |-> << [wa_id |-> Party, text |-> "hi", timestamp |-> IsoDate] >>]}
NormalizePayloads == {EndToEndPayload, [messages |-> << [wa_id |-> Party, text |-> "hi"] >>]}
                        \cup TextlessPayloads \cup MediaPayloads \cup DatePayloads

StatusValues    == {"sent", "delivered", "read"}
StatusPayloads  == {[type |-> "status", id |-> x, status |-> s] : x \in Ids, s \in StatusValues}
                      \cup {[type |-> "status", status |-> "read"]}
\* the messages the status runs start from
SeedPayloads    == {[messages |-> << [id |-> "a", wa_id |-> Party, text |-> "hi"] >>],
                    [messages |-> << [meta_msg_id |-> "a", wa_id |-> Party, text |-> "hi"] >>]}
\* payloads that are a message batch and carry status markers as well
MixedPayloads   ==
    {[messages |-> << [id |-> "a", wa_id |-> Party, text |-> "hi"] >>,
      statuses |-> << [id |-> "a", status |-> "read"] >>],
     [messages |-> << [id |-> "a", wa_id |-> Party, text |-> "hi"] >>,
      type |-> "status", id |-> "a", status |-> "read"],
     [type |-> "message", status_update |-> "read", id |-> "a", wa_id |-> Party, text |-> "hi"]}
StatusRunPayloads == SeedPayloads \cup StatusPayloads \cup MixedPayloads

\* status application: the stored messages, single status payloads (by an
\* identifier or by the handle of the first stored message) and statuses
\* collections, one with an entry without identifier, one with an entry
\* whose update the repository rejects
ApplyValues   == {"delivered", "read", "failed"}
ApplySeeds    == {[messages |-> << [id |-> "a", wa_id |-> Party, text |-> "hi"] >>],
                  [messages |-> << [meta_msg_id |-> "a", wa_id |-> Party, text |-> "hi"] >>],
                  [messages |-> << [wa_id |-> Party, text |-> "hi", status |-> "bogus"],
                                   [id |-> "b", wa_id |-> Party, text |-> "hi"] >>]}
ApplySingles  == {[type |-> "status", id |-> x, status |-> s] :
                    x \in {"a", ObjectIdOf(1)}, s \in ApplyValues}
ApplyBatches  == {[statuses |-> << [id |-> "a", status |-> s], [status |-> "read"],
                                   [id |-> "b", status |-> "read"] >>] :
                    s \in {"delivered", "read"}}
                 \cup {[statuses |-> << [id |-> "a", status |-> NotAString],
                                        [id |-> "b", status |-> "read"] >>],
                       [statuses |-> << [status |-> "read"] >>]}
\* a contacts payload, an empty object, a status without identifier
OtherShapes   == {[contacts |-> << [wa_id |-> Party] >>], Empty,
                  [type |-> "status", status |-> "read"]}
ApplyPayloads == ApplySeeds \cup ApplySingles \cup ApplyBatches \cup OtherShapes

\* payloads that are arrays of payloads, down to two levels
ArrayItems    == {[messages |-> << [id |-> "a", wa_id |-> Party, text |-> "hi"] >>],
                  [messages |-> << [id |-> "b", wa_id |-> Party, text |-> "hi"],
                                   [wa_id |-> Party, from |-> "bot"] >>],
                  [type |-> "status", id |-> "a", status |-> "read"],
                  [id |-> "b", wa_id |-> Party, text |-> "hi"],
                  Empty}
ArrayOf(items) == [array |-> items]
ArrayPayloads == {ArrayOf(<< p >>) : p \in ArrayItems}
                    \cup {ArrayOf(<< p, q >>) : p, q \in ArrayItems}
                    \cup {ArrayOf(<< ArrayOf(<< p >>), q >>) : p, q \in ArrayItems}
                    \cup {ArrayOf(<< >>)}

\* ------------------------------------------------------------- the state
Workers == {"w1", "w2"}     \* requests / script runs in progress at once

VARIABLES
    store,    \* the processed_messages collection, in insertion order
    nextId,   \* the next _id the collection hands out
    now,      \* the clock
    pc,       \* per worker: where its handler stands
    req,      \* per worker: the entry point, the payload it was given, and
              \* whether this is the payload's first or second delivery in a row
    res,      \* per worker: the result it returned (response / results)
    loc,      \* per worker: the locals of a handler suspended at an await
    io,       \* the events the step just taken emitted through socket.io, in order
    timers,   \* the pending setTimeout callbacks of POST /messages
    client    \* one browser: the App's active chat, the ChatWindow's list, its
              \* socket in both directions, and the rooms the server has it in

vars == << store, nextId, now, pc, req, res, loc, io, timers, client >>

NoReq == [via |-> "none", payload |-> Empty, nth |-> 0]
NoRes == [code |-> Unset]
NoLoc == [i |-> 1, existing |-> 0, saved |-> 0]
\* no browser is connected
NoClient == [connected |-> FALSE, active |-> Absent, rooms |-> {}, wire |-> << >>,
             inbox |-> << >>, messages |-> << >>, sending |-> FALSE, load |-> FALSE,
             orphans |-> {}]

Init ==
    /\ store = << >>
    /\ nextId = 1
    /\ now = 0
    /\ pc = [w \in Workers |-> "idle"]
    /\ req = [w \in Workers |-> NoReq]
    /\ res = [w \in Workers |-> NoRes]
    /\ loc = [w \in Workers |-> NoLoc]
    /\ io = << >>
    /\ timers = {}
    /\ client = NoClient

\* io.emit reaches every connected socket, io.to(`chat_${wa_id}`).emit the
\* sockets that are in the room
EventWaId(e) == IF e.event = "message:new" THEN e.message.wa_id ELSE e.wa_id
Reaches(e) == e.to = "all" \/ (e.to = "room" /\ EventWaId(e) \in client.rooms)
Transport ==
    client' = IF client.connected
              THEN [client EXCEPT !.inbox = @ \o SelectSeq(io', Reaches)]
              ELSE client

\* a payload reaches an entry point
Receive(w, via, P) ==
    /\ pc[w] = "idle"
    /\ \E payload \in P : req' = [req EXCEPT ![w] = [via |-> via, payload |-> payload, nth |-> 1]]
    /\ pc' = [pc EXCEPT ![w] = "recv"]
    /\ UNCHANGED << store, nextId, now, res, loc, timers >>
    /\ io' = << >>
    /\ Transport

\* node scripts/process_payloads.js on one payload file, run to its end
ScriptRun(w) ==
    /\ pc[w] = "recv" /\ req[w].via = "script"
    /\ LET r == processPayload([store |-> store, nextId |-> nextId, res |-> NoResults],
                               req[w].payload, now) IN
        /\ r.nextId <= MaxStore + 1
        /\ store' = r.store
        /\ nextId' = r.nextId
        /\ res' = [res EXCEPT ![w] = r.res]
    /\ pc' = [pc EXCEPT ![w] = "done"]
    /\ UNCHANGED << now, req, loc, timers >>
    /\ io' = << >>
    /\ Transport

\* POST /webhook, run to its response
WebhookPost(w) ==
    /\ pc[w] = "recv" /\ req[w].via = "webhook"
    /\ LET r == WebhookHandler(store, nextId, req[w].payload, now) IN
        /\ r.nextId <= MaxStore + 1
        /\ store' = r.store
        /\ nextId' = r.nextId
        /\ res' = [res EXCEPT ![w] = r.res]
        /\ io' = r.events
    /\ pc' = [pc EXCEPT ![w] = "done"]
    /\ UNCHANGED << now, req, loc, timers >>
    /\ Transport

\* PATCH /messages/:wa_id/read
MarkRead(w) ==
    /\ pc[w] = "recv" /\ req[w].via = "markRead"
    /\ LET u == UpdateMany(store, MarkReadMatch(store, req[w].payload.wa_id),
                           [status |-> "read"], now) IN
        /\ store' = u.store
        /\ res' = [res EXCEPT ![w] = [code |-> 200, updated |-> u.modified]]
        /\ io' = MarkReadEvents(u.store, MarkReadFound(u.store, req[w].payload.wa_id))
    /\ pc' = [pc EXCEPT ![w] = "done"]
    /\ UNCHANGED << nextId, now, req, loc, timers >>
    /\ Transport

\* GET /messages/:wa_id
FetchMessages(w) ==
    /\ pc[w] = "recv" /\ req[w].via = "fetch"
    /\ LET u == UpdateMany(store, FetchMatch(store, req[w].payload.wa_id),
                           [status |-> "read"], now) IN
        /\ store' = u.store
        /\ \E order \in SortedByTimestamp(store) :
               res' = [res EXCEPT ![w] = [code |-> 200, updated |-> u.modified,
                                          messages |-> FetchPage(store, order, req[w].payload)]]
    /\ pc' = [pc EXCEPT ![w] = "done"]
    /\ UNCHANGED << nextId, now, req, loc, timers >>
    /\ io' = << >>
    /\ Transport

\* the response is sent / the run is over: the worker is free again
Return(w) ==
    /\ pc[w] = "done"
    /\ pc' = [pc EXCEPT ![w] = "idle"]
    /\ req' = [req EXCEPT ![w] = NoReq]
    /\ res' = [res EXCEPT ![w] = NoRes]
    /\ UNCHANGED << store, nextId, now, loc, timers >>
    /\ io' = << >>
    /\ Transport

\* the payload just handled is delivered once more to the same entry point
\* (the sender retries the webhook; the script is run again on the same file)
Redeliver(w) ==
    /\ pc[w] = "done"
    /\ req[w].nth = 1
    /\ pc' = [pc EXCEPT ![w] = "recv"]
    /\ req' = [req EXCEPT ![w].nth = 2]
    /\ res' = [res EXCEPT ![w] = NoRes]
    /\ UNCHANGED << store, nextId, now, loc, timers >>
    /\ io' = << >>
    /\ Transport

Tick ==
    /\ now < MaxTime
    /\ now' = now + 1
    /\ UNCHANGED << store, nextId, pc, req, res, loc, timers >>
    /\ io' = << >>
    /\ Transport

ConversationKeys == [wa_id : {Party, "unknown"}]

\* --------------------------------------- route: DELETE /messages/:messageId
\* Message.findByIdAndDelete: the document leaves the collection
DeleteMessage(w) ==
    /\ pc[w] = "recv" /\ req[w].via = "delete"
    /\ LET hit == {i \in 1..Len(store) : store[i]._id = req[w].payload.id} IN
       IF hit = {}
       THEN /\ store' = store
            /\ res' = [res EXCEPT ![w] = [code |-> 404]]
            /\ io' = << >>
       ELSE LET deleted == store[CHOOSE i \in hit : TRUE] IN
            /\ store' = SelectSeq(store, LAMBDA d : d._id # deleted._id)
            /\ res' = [res EXCEPT ![w] = [code |-> 200]]
            /\ io' = << [event |-> "message:deleted", to |-> "all",
                         messageId |-> deleted._id, wa_id |-> deleted.wa_id] >>
    /\ pc' = [pc EXCEPT ![w] = "done"]
    /\ UNCHANGED << nextId, now, req, loc, timers >>
    /\ Transport

\* ------------------------------------------------ route: POST /messages
Blank == " "                                    \* whitespace-only content
trim(c) == IF c = Blank THEN Absent ELSE c      \* content.trim()

SendDoc(body, t, r) ==
    [ wa_id        |-> body.wa_id,
      msg_id       |-> DrawnMsgId(t, r),
      meta_msg_id  |-> Absent,
      from         |-> "me",
      content      |-> trim(body.content),
      content_type |-> FirstOf(<< F(body, "content_type"), "text" >>),
      timestamp    |-> t,
      status       |-> "sent" ]

\* the closure of the delivery timer: newMessage
TimerFor(m) == [_id |-> m._id, msg_id |-> m.msg_id, wa_id |-> m.wa_id]

\* R: the values Math.random() may return to this request
SendMessage(w, R) ==
    /\ pc[w] = "recv" /\ req[w].via = "send"
    /\ LET body == req[w].payload IN
       IF F(body, "wa_id") = Absent \/ F(body, "content") = Absent
       THEN /\ res' = [res EXCEPT ![w] = [code |-> 400]]
            /\ io' = << >>
            /\ UNCHANGED << store, nextId, timers >>
       ELSE \E r \in R :
            LET c == Create(store, nextId, SendDoc(body, now, r), now) IN
            /\ c.nextId <= MaxStore + 1
            /\ store' = c.store
            /\ nextId' = c.nextId
            /\ IF c.ok
               THEN /\ io' = NewMessageEvents(c.store[Len(c.store)])
                    /\ timers' = timers \cup {TimerFor(c.store[Len(c.store)])}
                    /\ res' = [res EXCEPT ![w] = [code |-> 200,
                                                  messageId |-> c.store[Len(c.store)]._id]]
               ELSE /\ io' = << >>
                    /\ timers' = timers
                    /\ res' = [res EXCEPT ![w] = [code |-> 500]]
    /\ pc' = [pc EXCEPT ![w] = "done"]
    /\ UNCHANGED << now, req, loc >>
    /\ Transport

\* (mutant) the callback without its update: the events only
DeliveryTimerLost(id) ==
    /\ \E tm \in timers :
          /\ tm._id = id
          /\ timers' = timers \ {tm}
          /\ io' = << StatusEvent("all", tm, "delivered"), StatusEvent("room", tm, "delivered") >>
    /\ UNCHANGED << store, nextId, now, pc, req, res, loc >>
    /\ Transport

\* the setTimeout callback: Message.findByIdAndUpdate(newMessage._id,
\* { status: "delivered" }), then the two emissions, whether or not the
\* message was still there
DeliveryTimer(id) ==
    /\ \E tm \in timers :
          /\ tm._id = id
          /\ timers' = timers \ {tm}
          /\ io' = << StatusEvent("all", tm, "delivered"), StatusEvent("room", tm, "delivered") >>
    /\ store' = [i \in 1..Len(store) |->
                    IF store[i]._id = id
                    THEN ApplyUpdate(store[i], [status |-> "delivered"], now)
                    ELSE store[i]]
    /\ UNCHANGED << nextId, now, pc, req, res, loc >>
    /\ Transport

\* ------------------------------------------------ route: GET /conversations
\* $sum of $cond [from = "remote" and status # "read", 1, 0] over the group
\* (mutant) the count without the test on the sender
UnreadCountAnySender(docs, k) ==
    Cardinality({i \in 1..Len(docs) : docs[i].wa_id = k /\ docs[i].status # "read"})

UnreadCount(docs, k) ==
    Cardinality({i \in 1..Len(docs) : docs[i].wa_id = k /\ docs[i].from = "remote"
                                        /\ docs[i].status # "read"})

\* $group by wa_id: the $first fields come from the group's first document
GroupOf(docs, order, k) ==
    LET p == CHOOSE p \in 1..Len(order) :
                 /\ docs[order[p]].wa_id = k
                 /\ \A q \in 1..(p - 1) : docs[order[q]].wa_id # k
        first == docs[order[p]] IN
    [ wa_id |-> k, lastMessage |-> first.content, lastTimestamp |-> first.timestamp,
      lastStatus |-> first.status, lastFrom |-> first.from,
      unreadCount |-> UnreadCount(docs, k) ]

Groups(docs, order) ==
    {GroupOf(docs, order, k) : k \in {docs[i].wa_id : i \in 1..Len(docs)}}

\* { $sort: { lastTimestamp: -1 } }
SortedGroups(G) ==
    {s \in [1..Cardinality(G) -> G] :
        /\ \A i, j \in 1..Cardinality(G) : i # j => s[i] # s[j]
        /\ \A i \in 1..(Cardinality(G) - 1) : s[i].lastTimestamp >= s[i + 1].lastTimestamp}

ListConversations(w) ==
    /\ pc[w] = "recv" /\ req[w].via = "list"
    /\ \E order \in SortedByTimestamp(store) :
          \E agg \in SortedGroups(Groups(store, order)) :
              res' = [res EXCEPT ![w] = [code |-> 200, conversations |-> agg]]
    /\ pc' = [pc EXCEPT ![w] = "done"]
    /\ io' = << >>
    /\ UNCHANGED << store, nextId, now, req, loc, timers >>
    /\ Transport

\* ingestion of message payloads, one at a time, by the script and by the route
Next ==
    \/ Receive("w1", "script", IngestPayloads)
    \/ Receive("w1", "webhook", IngestPayloads)
    \/ ScriptRun("w1")
    \/ WebhookPost("w1")
    \/ Redeliver("w1")
    \/ Return("w1")

Spec == Init /\ [][Next]_vars

\* status reconciliation over a few stored messages, one request at a time
NextStatus ==
    \/ Receive("w1", "script", StatusRunPayloads)
    \/ Receive("w1", "webhook", StatusRunPayloads)
    \/ Receive("w1", "markRead", ConversationKeys)
    \/ Receive("w1", "fetch", ConversationKeys)
    \/ ScriptRun("w1")
    \/ WebhookPost("w1")
    \/ MarkRead("w1")
    \/ FetchMessages("w1")
    \/ Redeliver("w1")
    \/ Return("w1")
    \/ Tick

SpecStatus == Init /\ [][NextStatus]_vars

\* normalization of a few message shapes by the script and by the route
NextNormalize ==
    \/ Receive("w1", "script", NormalizePayloads)
    \/ Receive("w1", "webhook", NormalizePayloads)
    \/ ScriptRun("w1")
    \/ WebhookPost("w1")
    \/ Return("w1")
    \/ Tick

SpecNormalize == Init /\ [][NextNormalize]_vars

\* status updates, single and in collections, over a few stored messages
NextApply ==
    \/ Receive("w1", "script", ApplyPayloads)
    \/ Receive("w1", "webhook", ApplyPayloads)
    \/ ScriptRun("w1")
    \/ WebhookPost("w1")
    \/ Return("w1")

SpecApply == Init /\ [][NextApply]_vars

\* status updates whose value is outside the schema's enum, or that carry
\* the value under status_update, next to well-formed ones
DomainSeeds    == {[messages |-> << [id |-> "a", wa_id |-> Party, text |-> "hi"] >>],
                   [messages |-> << [id |-> "b", wa_id |-> Party, text |-> "hi"] >>]}
DomainStatuses == {[type |-> "status", id |-> x, status |-> s] :
                     x \in {"a", "b"}, s \in {"read", "bogus"}}
                  \cup {[id |-> "a", status_update |-> "seen"],
                        [statuses |-> << [id |-> "a", status_update |-> "seen"],
                                         [id |-> "b", status |-> "read"] >>]}
DomainPayloads == DomainSeeds \cup DomainStatuses

NextDomain ==
    \/ Receive("w1", "script", DomainPayloads)
    \/ Receive("w1", "webhook", DomainPayloads)
    \/ ScriptRun("w1")
    \/ WebhookPost("w1")
    \/ Return("w1")
    \/ Tick

SpecDomain == Init /\ [][NextDomain]_vars

\* payload files that hold an array, given to the script
NextArray ==
    \/ Receive("w1", "script", ArrayPayloads \cup ArrayItems)
    \/ ScriptRun("w1")
    \/ Redeliver("w1")
    \/ Return("w1")
    \/ Tick

SpecArray == Init /\ [][NextArray]_vars

\* the conversation views over a few messages of two conversations
Other == "55522"
ConvPayloads ==
    {[messages |-> << [id |-> "a", wa_id |-> Party, text |-> "hi"] >>],
     [messages |-> << [wa_id |-> Other, text |-> "yo", status |-> "pending"] >>],
     [messages |-> << [id |-> "a", wa_id |-> Party, text |-> "hi"], [text |-> "hi"] >>],
     [messages |-> << [wa_id |-> Party, text |-> "yo", timestamp |-> 1700000] >>],
     [id |-> "b", wa_id |-> Party],
     [type |-> "status", id |-> "a", status |-> "read"],
     [type |-> "status", id |-> "a", status |-> "delivered"]}
ConvKeys     == [wa_id : {Party, Other}]
SendPayloads == {[wa_id |-> Party, content |-> "hi"], [wa_id |-> Party, content |-> Blank],
                 [content |-> "hi"]}
MessageIds   == 1..MaxStore
\* the outcomes in which every message's draw differs from the others'
DistinctDraw == {nextId}
DeleteParams == [id : MessageIds]

NextConv ==
    \/ Receive("w1", "webhook", ConvPayloads)
    \/ Receive("w1", "markRead", ConvKeys)
    \/ Receive("w1", "fetch", ConvKeys)
    \/ Receive("w1", "list", {Empty})
    \/ Receive("w1", "delete", DeleteParams)
    \/ Receive("w1", "send", SendPayloads)
    \/ WebhookPost("w1")
    \/ MarkRead("w1")
    \/ FetchMessages("w1")
    \/ ListConversations("w1")
    \/ DeleteMessage("w1")
    \/ SendMessage("w1", DistinctDraw)
    \/ \E id \in MessageIds : DeliveryTimer(id)
    \/ Return("w1")

SpecConv == Init /\ [][NextConv]_vars

\* locally sent messages and their delivery timers; a timer that is pending
\* fires (the process stays up)
SentStatusPayloads == {[type |-> "status", id |-> GenMsgId(1), status |-> "read"]}

NextSend ==
    \/ Receive("w1", "send", SendPayloads)
    \/ Receive("w1", "delete", DeleteParams)
    \/ Receive("w1", "webhook", SentStatusPayloads)
    \/ SendMessage("w1", DistinctDraw)
    \/ DeleteMessage("w1")
    \/ WebhookPost("w1")
    \/ \E id \in MessageIds : DeliveryTimer(id)
    \/ Return("w1")

SpecSend == Init /\ [][NextSend]_vars /\ \A id \in MessageIds : WF_vars(DeliveryTimer(id))

\* sends whose identifier is drawn freely, as the clock advances
NextIds ==
    \/ Receive("w1", "send", SendPayloads)
    \/ SendMessage("w1", RandomDraws)
    \/ \E id \in MessageIds : DeliveryTimer(id)
    \/ Return("w1")
    \/ Tick

SpecIds == Init /\ [][NextIds]_vars

\* every operation that touches a stored message, over a received and a
\* locally sent message
FramePayloads ==
    {[messages |-> << [id |-> "a", wa_id |-> Party, text |-> "hi", timestamp |-> 1700000] >>],
     [type |-> "status", id |-> "a", status |-> "read"],
     [type |-> "status", id |-> "a", status |-> "delivered"],
     [type |-> "status", id |-> GenMsgId(1), status |-> "failed"]}

NextFrame ==
    \/ Receive("w1", "webhook", FramePayloads)
    \/ Receive("w1", "script", FramePayloads)
    \/ Receive("w1", "markRead", [wa_id : {Party}])
    \/ Receive("w1", "fetch", [wa_id : {Party}])
    \/ Receive("w1", "send", {[wa_id |-> Party, content |-> "yo"]})
    \/ Receive("w1", "delete", DeleteParams)
    \/ WebhookPost("w1")
    \/ ScriptRun("w1")
    \/ MarkRead("w1")
    \/ FetchMessages("w1")
    \/ SendMessage("w1", DistinctDraw)
    \/ DeleteMessage("w1")
    \/ \E id \in MessageIds : DeliveryTimer(id)
    \/ Return("w1")

SpecFrame == Init /\ [][NextFrame]_vars

\* pages of two conversations whose messages carry their own timestamps,
\* two of them the same one
PagePayloads ==
    {[messages |-> << [wa_id |-> Party, text |-> "m1", timestamp |-> 1700000] >>],
     [messages |-> << [wa_id |-> Party, text |-> "m2", timestamp |-> 1700001] >>],
     [messages |-> << [wa_id |-> Party, text |-> "m3", timestamp |-> 1700001] >>],
     [messages |-> << [wa_id |-> Other, text |-> "m4", timestamp |-> 1700002] >>]}
FetchParams ==
    {[wa_id |-> Party] @@ p @@ l @@ b :
        p \in {Empty, [page |-> 1], [page |-> 2]},
        l \in {Empty, [limit |-> 1], [limit |-> 2]},
        b \in {Empty} \cup {[before |-> id] : id \in MessageIds}}

NextPages ==
    \/ Receive("w1", "webhook", PagePayloads)
    \/ Receive("w1", "fetch", FetchParams)
    \/ WebhookPost("w1")
    \/ FetchMessages("w1")
    \/ Return("w1")

SpecPages == Init /\ [][NextPages]_vars

\* --------------------------------------- the browser: App and ChatWindow
\* One browser tab with its socket. The window's entries keep the fields the
\* list is keyed and matched by. The typing and presence events, and the
\* status handler (which rewrites the status of entries and adds or removes
\* none), are left out.
Chats == {Party, Other}
Texts == {"hi"}
Join(k)  == [op |-> "join_chat", wa_id |-> k]
Leave(k) == [op |-> "leave_chat", wa_id |-> k]
LeaveActive == IF client.active # Absent THEN << Leave(client.active) >> ELSE << >>

\* `temp_${Date.now()}`
TempId(t) == 1000 + t
IsTempId(id) == id >= 1000
Entry(m) == [_id |-> m._id, wa_id |-> m.wa_id, content |-> m.content]
optimisticMessage(body, t) ==
    [_id |-> TempId(t), wa_id |-> body.wa_id, content |-> body.content]
RECURSIVE Entries(_)
Entries(docs) == IF docs = << >> THEN << >> ELSE << Entry(Head(docs)) >> \o Entries(Tail(docs))

\* the requests of an unmounted window: their continuations set no state
InFlight == {w \in Workers : pc[w] # "idle"}

\* App: io(socketUrl)
Connect ==
    /\ ~client.connected
    /\ client' = [client EXCEPT !.connected = TRUE]
    /\ io' = << >>
    /\ UNCHANGED << store, nextId, now, pc, req, res, loc, timers >>

\* (mutant) selecting a chat without leaving the previous room
handleSelectChatNoLeave(k) ==
    /\ client.connected
    /\ Len(client.wire) <= MaxWire
    /\ client' = [client EXCEPT !.active = k,
                                !.wire = @ \o << Join(k) >>,
                                !.load = @ \/ k # client.active]
    /\ io' = << >>
    /\ UNCHANGED << store, nextId, now, pc, req, res, loc, timers >>

\* App.handleSelectChat; the window's effect on [wa_id] then calls loadMessages
handleSelectChat(k) ==
    /\ client.connected
    /\ Len(client.wire) <= MaxWire
    /\ client' = [client EXCEPT !.active = k,
                                !.wire = @ \o LeaveActive \o << Join(k) >>,
                                !.load = @ \/ k # client.active]
    /\ io' = << >>
    /\ UNCHANGED << store, nextId, now, pc, req, res, loc, timers >>

\* App.handleBackToList; the ChatWindow is unmounted and its state dropped
handleBackToList ==
    /\ client.connected
    /\ client.active # Absent
    /\ Len(client.wire) <= MaxWire
    /\ client' = [client EXCEPT !.active = Absent,
                                !.wire = @ \o LeaveActive,
                                !.messages = << >>,
                                !.sending = FALSE,
                                !.load = FALSE,
                                !.orphans = InFlight]
    /\ io' = << >>
    /\ UNCHANGED << store, nextId, now, pc, req, res, loc, timers >>

\* server: socket.on("join_chat")
join_chat ==
    /\ client.wire # << >>
    /\ Head(client.wire).op = "join_chat"
    /\ client' = [client EXCEPT !.wire = Tail(@),
                                !.rooms = @ \cup {Head(client.wire).wa_id}]
    /\ io' = << >>
    /\ UNCHANGED << store, nextId, now, pc, req, res, loc, timers >>

\* server: socket.on("leave_chat")
leave_chat ==
    /\ client.wire # << >>
    /\ Head(client.wire).op = "leave_chat"
    /\ client' = [client EXCEPT !.wire = Tail(@),
                                !.rooms = @ \ {Head(client.wire).wa_id}]
    /\ io' = << >>
    /\ UNCHANGED << store, nextId, now, pc, req, res, loc, timers >>

\* ChatWindow.loadMessages up to its await: GET /messages/:wa_id
loadMessages(w) ==
    /\ client.load /\ client.active # Absent
    /\ pc[w] = "idle"
    /\ req' = [req EXCEPT ![w] = [via |-> "fetch", payload |-> [wa_id |-> client.active],
                                  nth |-> 1]]
    /\ pc' = [pc EXCEPT ![w] = "recv"]
    /\ client' = [client EXCEPT !.load = FALSE]
    /\ io' = << >>
    /\ UNCHANGED << store, nextId, now, res, loc, timers >>

\* ChatWindow.loadMessages from its await on: setMessages(data)
loadMessagesDone(w) ==
    /\ pc[w] = "done" /\ req[w].via = "fetch"
    /\ client' = IF w \in client.orphans
                 THEN [client EXCEPT !.orphans = @ \ {w}]
                 ELSE [client EXCEPT !.messages = IF res[w].code = 200
                                                  THEN Entries(res[w].messages)
                                                  ELSE << >>]
    /\ pc' = [pc EXCEPT ![w] = "idle"]
    /\ req' = [req EXCEPT ![w] = NoReq]
    /\ res' = [res EXCEPT ![w] = NoRes]
    /\ io' = << >>
    /\ UNCHANGED << store, nextId, now, loc, timers >>

\* ChatWindow.handleSend up to its await: POST /messages
handleSend(w) ==
    /\ client.active # Absent /\ ~client.sending
    /\ pc[w] = "idle"
    /\ \E text \in Texts :
          req' = [req EXCEPT ![w] = [via |-> "send",
                                    payload |-> [wa_id |-> client.active, content |-> text],
                                    nth |-> 1]]
    /\ pc' = [pc EXCEPT ![w] = "recv"]
    /\ client' = [client EXCEPT !.sending = TRUE]
    /\ io' = << >>
    /\ UNCHANGED << store, nextId, now, res, loc, timers >>

\* ChatWindow.handleSend from its await on: the optimistic entry is appended
\* whenever the request succeeded
handleSendDone(w) ==
    /\ pc[w] = "done" /\ req[w].via = "send"
    /\ client' = IF w \in client.orphans
                 THEN [client EXCEPT !.orphans = @ \ {w}]
                 ELSE [client EXCEPT
                         !.sending = FALSE,
                         !.messages = IF res[w].code = 200
                                      THEN Append(@, optimisticMessage(req[w].payload, now))
                                      ELSE @]
    /\ pc' = [pc EXCEPT ![w] = "idle"]
    /\ req' = [req EXCEPT ![w] = NoReq]
    /\ res' = [res EXCEPT ![w] = NoRes]
    /\ io' = << >>
    /\ UNCHANGED << store, nextId, now, loc, timers >>

\* ChatWindow.handleNewMessage, registered while a window is mounted
handleNewMessage ==
    /\ client.inbox # << >>
    /\ LET msg == Head(client.inbox).message IN
       client' = [client EXCEPT
                    !.inbox = Tail(@),
                    !.messages = IF /\ client.active # Absent
                                    /\ msg.wa_id = client.active
                                    /\ ~\E n \in 1..Len(@) : @[n]._id = msg._id
                                 THEN Append(@, Entry(msg))
                                 ELSE @]
    /\ io' = << >>
    /\ UNCHANGED << store, nextId, now, pc, req, res, loc, timers >>

\* a browser moving between chats, and the server handling its socket's emits
NextRooms ==
    \/ Connect
    \/ \E k \in Chats : handleSelectChat(k)
    \/ handleBackToList
    \/ join_chat
    \/ leave_chat
    \/ loadMessages("w2")
    \/ FetchMessages("w2")
    \/ loadMessagesDone("w2")

SpecRooms == Init /\ [][NextRooms]_vars

\* a browser opening one chat, going back, and sending from the open window
NextClient ==
    \/ Connect
    \/ handleSelectChat(Party)
    \/ handleBackToList
    \/ join_chat
    \/ leave_chat
    \/ loadMessages("w2")
    \/ FetchMessages("w2")
    \/ loadMessagesDone("w2")
    \/ handleSend("w1")
    \/ SendMessage("w1", DistinctDraw)
    \/ handleSendDone("w1")
    \/ handleNewMessage

SpecClient == Init /\ [][NextClient]_vars

\* ----------------------------- the handlers, one repository call at a time
\* Each await of a handler is a step: other requests and script runs may
\* touch the collection between two steps of the same handler.
IsWebhookMessage(payload) == F(payload, "type") = "message" \/ "messages" \in DOMAIN payload
IsWebhookStatus(payload) ==
    /\ ~IsWebhookMessage(payload)
    /\ F(payload, "type") = "status" \/ F(payload, "status_update") # Absent
    /\ FirstOf(<< F(payload, "id"), F(payload, "msg_id"), F(payload, "meta_msg_id") >>) # Absent

\* the synchronous part of a handler up to its first await
Dispatch(w) ==
    /\ pc[w] = "recv"
    /\ LET payload == req[w].payload IN
       \/ /\ req[w].via = "script" /\ IsMessagePayload(payload)
          /\ pc' = [pc EXCEPT ![w] = IF Len(MessagesOf(payload)) = 0 THEN "done" ELSE "find"]
          /\ res' = [res EXCEPT ![w] = NoResults]
       \/ /\ req[w].via = "script" /\ ~IsMessagePayload(payload) /\ IsStatusPayload(payload)
          /\ pc' = [pc EXCEPT ![w] = IF Len(StatusesOf(payload)) = 0 THEN "done" ELSE "supdate"]
          /\ res' = [res EXCEPT ![w] = NoResults]
       \/ /\ req[w].via = "webhook" /\ IsWebhookMessage(payload)
          /\ pc' = [pc EXCEPT ![w] = "wcreate"]
          /\ res' = res
       \/ /\ req[w].via = "webhook" /\ IsWebhookStatus(payload)
          /\ pc' = [pc EXCEPT ![w] = "wupdate"]
          /\ res' = res
    /\ loc' = [loc EXCEPT ![w] = NoLoc]
    /\ UNCHANGED << store, nextId, now, req, timers >>
    /\ io' = << >>
    /\ Transport

\* processMessages: await findExistingMessage(msg)
ScriptFind(w) ==
    /\ pc[w] = "find"
    /\ loc' = [loc EXCEPT ![w].existing =
                 findExistingMessage(MessagesOf(req[w].payload)[loc[w].i], store)]
    /\ pc' = [pc EXCEPT ![w] = "create"]
    /\ UNCHANGED << store, nextId, now, req, res, timers >>
    /\ io' = << >>
    /\ Transport

\* processMessages: skip the duplicate, or await Message.create(doc)
ScriptCreate(w) ==
    /\ pc[w] = "create"
    /\ LET msgs == MessagesOf(req[w].payload)
           r == ProcessChecked([store |-> store, nextId |-> nextId, res |-> res[w]],
                               loc[w].existing, msgs[loc[w].i], req[w].payload, now) IN
        /\ r.nextId <= MaxStore + 1
        /\ store' = r.store
        /\ nextId' = r.nextId
        /\ res' = [res EXCEPT ![w] = r.res]
        /\ loc' = [loc EXCEPT ![w].i = @ + 1, ![w].existing = 0]
        /\ pc' = [pc EXCEPT ![w] = IF loc[w].i = Len(msgs) THEN "done" ELSE "find"]
    /\ UNCHANGED << now, req, timers >>
    /\ io' = << >>
    /\ Transport

\* processStatusUpdates: await Message.updateMany(query, update)
ScriptUpdate(w) ==
    /\ pc[w] = "supdate"
    /\ LET sus == StatusesOf(req[w].payload)
           throws == StatusThrows(sus[loc[w].i], req[w].payload)
           r == IF throws THEN [store |-> store, res |-> [res[w] EXCEPT !.errors = @ + 1]]
                ELSE ProcessOneStatus([store |-> store, nextId |-> nextId, res |-> res[w]],
                                      sus[loc[w].i], req[w].payload, now) IN
        /\ store' = r.store
        /\ res' = [res EXCEPT ![w] = r.res]
        /\ loc' = [loc EXCEPT ![w].i = @ + 1]
        /\ pc' = [pc EXCEPT ![w] = IF throws \/ loc[w].i = Len(sus) THEN "done" ELSE "supdate"]
    /\ UNCHANGED << nextId, now, req, timers >>
    /\ io' = << >>
    /\ Transport

\* /webhook message branch: await Message.create(doc), or the response
WebhookCreate(w) ==
    /\ pc[w] = "wcreate"
    /\ LET msgs == WebhookMessagesOf(req[w].payload) IN
       IF loc[w].i > Len(msgs)
       THEN /\ res' = [res EXCEPT ![w] = Response(200, loc[w].saved, Unset, Unset)]
            /\ pc' = [pc EXCEPT ![w] = "done"]
            /\ io' = << >>
            /\ UNCHANGED << store, nextId, loc >>
       ELSE LET c == Create(store, nextId, WebhookDoc(msgs[loc[w].i], req[w].payload, now), now) IN
            /\ c.nextId <= MaxStore + 1
            /\ store' = c.store
            /\ nextId' = c.nextId
            /\ IF c.ok
               THEN /\ loc' = [loc EXCEPT ![w].i = @ + 1, ![w].saved = @ + 1]
                    /\ io' = NewMessageEvents(c.store[Len(c.store)])
                    /\ UNCHANGED << pc, res >>
               ELSE /\ res' = [res EXCEPT ![w] = Response(500, Unset, Unset, Unset)]
                    /\ pc' = [pc EXCEPT ![w] = "done"]
                    /\ io' = << >>
                    /\ loc' = loc
    /\ UNCHANGED << now, req, timers >>
    /\ Transport

\* /webhook status branch: await Message.updateMany(query, update)
WebhookUpdate(w) ==
    /\ pc[w] = "wupdate"
    /\ LET payload == req[w].payload
           idToFind == FirstOf(<< F(payload, "id"), F(payload, "msg_id"), F(payload, "meta_msg_id") >>)
           status == FirstOf(<< F(payload, "status"), F(payload, "status_update"), "delivered" >>)
           u == UpdateMany(store, MatchId(store, idToFind), [status |-> status], now) IN
       IF CastFails([status |-> status])
       THEN /\ store' = store
            /\ res' = [res EXCEPT ![w] = Response(500, Unset, Unset, Unset)]
            /\ pc' = [pc EXCEPT ![w] = "done"]
       ELSE /\ store' = u.store
            /\ res' = [res EXCEPT ![w] = Response(200, Unset, u.matched, u.modified)]
            /\ pc' = [pc EXCEPT ![w] = "wfind"]
    /\ UNCHANGED << nextId, now, req, loc, timers >>
    /\ io' = << >>
    /\ Transport

\* /webhook status branch: await Message.find(query), then the response
WebhookFind(w) ==
    /\ pc[w] = "wfind"
    /\ pc' = [pc EXCEPT ![w] = "done"]
    /\ io' = WebhookStatusEvents(store, MatchId(store, StatusIdOf(req[w].payload)),
                                 StatusOf(req[w].payload))
    /\ UNCHANGED << store, nextId, now, req, res, loc, timers >>
    /\ Transport

\* the payloads of the concurrent runs: one identifier, two namespaces
RacePayloads ==
    {[messages |-> << [id |-> "a", wa_id |-> Party, text |-> "hi"] >>],
     [messages |-> << [id |-> "b", wa_id |-> Party, text |-> "hi"],
                      [id |-> "a", wa_id |-> Party, text |-> "hi"] >>],
     [type |-> "status", id |-> "a", status |-> "delivered"],
     [type |-> "status", id |-> "a", status |-> "read"]}

\* two requests / script runs in progress at once
NextRace ==
    \E w \in Workers :
        \/ Receive(w, "script", RacePayloads)
        \/ Receive(w, "webhook", RacePayloads)
        \/ Dispatch(w)
        \/ ScriptFind(w)
        \/ ScriptCreate(w)
        \/ ScriptUpdate(w)
        \/ WebhookCreate(w)
        \/ WebhookUpdate(w)
        \/ WebhookFind(w)
        \/ Return(w)

SpecRace == Init /\ [][NextRace]_vars

\* ================================================================ claims
\* the order pending < sent < delivered < read
Ordered == {"pending", "sent", "delivered", "read"}
Rank(s) == IF s = "pending" THEN 0 ELSE IF s = "sent" THEN 1
           ELSE IF s = "delivered" THEN 2 ELSE 3

\* worker w's handler runs (to its end) in this step
Handles(w, via) == pc[w] = "recv" /\ pc'[w] = "done" /\ req[w].via = via

\* worker w applies status s to the messages identified by a single status payload
AppliesStatus(w, s) ==
    /\ Handles(w, "script") \/ Handles(w, "webhook")
    /\ F(req[w].payload, "type") = "status"
    /\ StatusIdOf(req[w].payload) # Absent
    /\ StatusOf(req[w].payload) = s

\* C1: status never regresses: over any step, a stored message's status is
\* never earlier in pending < sent < delivered < read than it was before.
C1_StatusNeverRegresses ==
    [][\A i \in 1..Len(store) :
          (store[i].status \in Ordered /\ store'[i].status \in Ordered)
              => Rank(store'[i].status) >= Rank(store[i].status)]_vars

\* C2: applying `read` twice to the same message: the second application is
\* a no-op (modified count 0, no field of the message changes) and readAt
\* holds the value the first application stamped.
C2_SecondReadIsNoOp ==
    [][\A w \in Workers : (AppliesStatus(w, "read") /\ req[w].nth = 2) =>
          LET hit == MatchId(store, StatusIdOf(req[w].payload)) IN
          /\ \A i \in hit : store'[i] = store[i] /\ store[i].read_at # Unset
          /\ req[w].via = "script" => res'[w].updated = 0
          /\ req[w].via = "webhook" => res'[w].modified = 0]_vars

\* C3: a status update that moves a message into `delivered` stamps
\* deliveredAt if it was unset, and no later status update changes a
\* deliveredAt that is set.
C3_DeliveredAtStamped ==
    [][\A w \in Workers, s \in StatusValues : AppliesStatus(w, s) =>
          \A i \in MatchId(store, StatusIdOf(req[w].payload)) :
              /\ (s = "delivered" /\ store[i].status # "delivered")
                     => store'[i].delivered_at # Unset
              /\ store[i].delivered_at # Unset
                     => store'[i].delivered_at = store[i].delivered_at]_vars

\* a messages collection of one entry, as the script is given it
SingleMessage(w) == MessagesOf(req[w].payload)[1]
IsSingle(w) ==
    /\ "messages" \in DOMAIN req[w].payload
    /\ Len(req[w].payload.messages) = 1

\* C4: cross-namespace dedup: with a message stored under msg_id x, the
\* ingestion of a payload whose meta_msg_id / wamid is x inserts nothing and
\* counts a duplicate; likewise a stored meta_msg_id x and an incoming id x.
C4_CrossNamespaceDedup ==
    [][\A w \in Workers : (Handles(w, "script") /\ IsSingle(w)) =>
          LET m == SingleMessage(w)
              primary == FirstOf(<< F(m, "id"), F(m, "msg_id") >>)
              secondary == FirstOf(<< F(m, "meta_msg_id"), F(m, "wamid") >>) IN
          (\/ secondary # Absent /\ \E i \in 1..Len(store) : store[i].msg_id = secondary
           \/ primary # Absent /\ \E i \in 1..Len(store) : store[i].meta_msg_id = primary)
              => store' = store /\ res'[w].duplicates = 1]_vars

\* the identifiers the normalizer stores for a message-like object
StoredIds(m) == << createMessageDocument(m, m, 0).msg_id, createMessageDocument(m, m, 0).meta_msg_id >>

\* C5: re-ingestion is idempotent: a (valid) payload carrying an identifier
\* the normalizer stores, ingested a second time in sequence, inserts nothing
\* and is reported as a duplicate.
C5_ReingestionIdempotent ==
    [][\A w \in Workers : (Handles(w, "script") /\ IsSingle(w) /\ req[w].nth = 2) =>
          LET m == SingleMessage(w) IN
          (/\ StoredIds(m) # << Absent, Absent >>
           /\ Valid(createMessageDocument(m, req[w].payload, now)))
              => store' = store /\ res'[w].duplicates = 1]_vars


\* a message-like object carrying none of the identifier fields
LacksIds(m) == DOMAIN m \cap IdFields = {}
\* the document an entry point builds for entry m of a payload
DocFor(via, m, payload, t) ==
    IF via = "script" THEN createMessageDocument(m, payload, t) ELSE WebhookDoc(m, payload, t)
HandlesMessages(w) ==
    /\ Handles(w, "script") \/ Handles(w, "webhook")
    /\ "messages" \in DOMAIN req[w].payload

\* C6: a message lacking all identifiers is never a duplicate: findExisting
\* returns none for it whatever the repository holds, and ingesting a
\* collection of N such (otherwise valid) messages appends exactly N stored
\* messages, with N reported inserted and none as duplicate or error.
C6_NoIdsNeverDuplicate ==
    [][/\ \A m \in MsgLikes \cup BatchItems :
              LacksIds(m) => findExistingMessage(m, store) = 0
       /\ \A w \in Workers : HandlesMessages(w) =>
              LET msgs == req[w].payload.messages
                  N == Len(msgs) IN
              (\A k \in 1..N : /\ LacksIds(msgs[k])
                               /\ Valid(DocFor(req[w].via, msgs[k], req[w].payload, now)))
                  => /\ Len(store') = Len(store) + N
                     /\ SubSeq(store', 1, Len(store)) = store
                     /\ res'[w].inserted = N
                     /\ req[w].via = "script" =>
                            res'[w].duplicates = 0 /\ res'[w].errors = 0]_vars

\* an id-less message was ingested into a repository that already held
\* messages, one of them without a meta_msg_id
C6_Witness ==
    \E w \in Workers :
        /\ pc[w] = "done" /\ req[w].via = "script"
        /\ "messages" \in DOMAIN req[w].payload
        /\ \A k \in 1..Len(req[w].payload.messages) : LacksIds(req[w].payload.messages[k])
        /\ res[w].inserted = Len(req[w].payload.messages)
        /\ Len(store) > res[w].inserted
        /\ store[1].meta_msg_id = Absent

\* a conversation-identifying field at message or parent level
HasKey(m, payload) ==
    FirstOf(<< F(m, "wa_id"), F(m, "from"), F(m, "sender"),
               F(payload, "wa_id"), F(payload, "from"), F(payload, "sender") >>) # Absent

\* C9: batch partial failure: a collection of 3 entries whose entry 2 has no
\* resolvable conversation key (entries 1 and 3 being new and valid) yields
\* inserted = 2 (and errors = 1 from the script), and exactly entries 1 and 3
\* are added to the repository.
C9_BatchPartialFailure ==
    [][\A w \in Workers : HandlesMessages(w) =>
          LET payload == req[w].payload
              msgs == payload.messages IN
          (/\ Len(msgs) = 3
           /\ HasKey(msgs[1], payload) /\ ~HasKey(msgs[2], payload) /\ HasKey(msgs[3], payload)
           /\ \A k \in {1, 3} : findExistingMessage(msgs[k], store) = 0
           /\ StoredIds(msgs[1]) # StoredIds(msgs[3])
           /\ StoredIds(msgs[2]) \notin {StoredIds(msgs[1]), StoredIds(msgs[3]), << Absent, Absent >>})
              => /\ res'[w].inserted = 2
                 /\ req[w].via = "script" => res'[w].errors = 1
                 /\ Len(store') = Len(store) + 2
                 /\ \A j \in (Len(store) + 1)..Len(store') :
                        << store'[j].msg_id, store'[j].meta_msg_id >> # StoredIds(msgs[2])]_vars

\* C10: no stored message has a defaulted conversation key.
C10_NoUnknownBucket ==
    \A i \in 1..Len(store) : store[i].wa_id # "unknown"


\* the entry a script run suspended in processMessages is working on
CurrentMessage(w) == MessagesOf(req[w].payload)[loc[w].i]

\* C7: the dedup check-then-insert is not atomic and the collection rejects no
\* second insert: a script run that passed the existence check for a valid
\* entry inserts it, whatever was stored in between; so two runs given the
\* same identifier can both insert it.
C7_CheckThenInsertNotAtomic ==
    [][\A w \in Workers :
          (/\ pc[w] = "create" /\ pc'[w] # "create"
           /\ loc[w].existing = 0
           /\ Valid(createMessageDocument(CurrentMessage(w), req[w].payload, now)))
              => /\ Len(store') = Len(store) + 1
                 /\ store'[Len(store')].msg_id
                        = PreSave(createMessageDocument(CurrentMessage(w), req[w].payload, now),
                                  nextId).msg_id
                 /\ res'[w].inserted = res[w].inserted + 1]_vars

\* two script runs given the same single message have both inserted it
C7_Witness ==
    /\ \A w \in Workers :
          /\ pc[w] = "done" /\ req[w].via = "script"
          /\ req[w].payload = [messages |-> << [id |-> "a", wa_id |-> Party, text |-> "hi"] >>]
          /\ res[w].inserted = 1
    /\ Cardinality({i \in 1..Len(store) : store[i].msg_id = "a"}) = 2

\* worker w has applied status s to at least one stored message
Applied(w, s) ==
    /\ req[w].via \in {"script", "webhook"}
    /\ F(req[w].payload, "type") = "status"
    /\ StatusOf(req[w].payload) = s
    /\ \/ req[w].via = "webhook" /\ pc[w] \in {"wfind", "done"} /\ res[w].matched >= 1
       \/ req[w].via = "script" /\ pc[w] = "done" /\ res[w].updated >= 1

\* C8: racing status updates: once a `delivered` and a `read` update of the
\* same message have both been applied by concurrent requests, the stored
\* status is the higher one, `read`.
C8_HigherStatusWins ==
    \A w1, w2 \in Workers :
        (/\ w1 # w2
         /\ Applied(w1, "delivered") /\ Applied(w2, "read")
         /\ StatusIdOf(req[w1].payload) = StatusIdOf(req[w2].payload))
            => \A i \in MatchId(store, StatusIdOf(req[w1].payload)) : store[i].status = "read"

\* C11: end-to-end ingestion: from an empty repository, ingesting
\* {messages: [{from: "55511", text: {body: "hi"}, timestamp: 1700000000}]}
\* through an ingestion entry point stores exactly one message, with
\* conversation key "55511", content "hi", content type text, direction
\* remote, status sent and the timestamp 1700000000 seconds after the epoch.
C11_EndToEnd ==
    [][\A w \in Workers :
          (/\ Handles(w, "script") \/ Handles(w, "webhook")
           /\ req[w].payload = EndToEndPayload
           /\ store = << >>)
              => /\ Len(store') = 1
                 /\ store'[1].wa_id = Party
                 /\ store'[1].content = "hi"
                 /\ store'[1].content_type = "text"
                 /\ store'[1].from = "remote"
                 /\ store'[1].status = "sent"
                 /\ store'[1].timestamp = 1700 * MsPerSecond]_vars

\* the stored messages of conversation k that are not deleted
Conversation(k) == {i \in 1..Len(store) : store[i].wa_id = k /\ ~store[i].is_deleted}
\* the summaries a GET /conversations that ends in this step responds with
Listed(w) == res'[w].conversations

\* C12: whatever inserts, status updates and deletions came before, the
\* conversation list has one summary per conversation key, and its
\* unreadCount is exactly the number of that key's stored messages that are
\* from remote, not read and not deleted.
C12_UnreadCountExact ==
    [][\A w \in Workers : Handles(w, "list") =>
          /\ \A i \in 1..Len(store) :
                 Cardinality({p \in 1..Len(Listed(w)) : Listed(w)[p].wa_id = store[i].wa_id}) = 1
          /\ \A p \in 1..Len(Listed(w)) :
                 Listed(w)[p].unreadCount =
                     Cardinality({i \in Conversation(Listed(w)[p].wa_id) :
                                     store[i].from = "remote" /\ store[i].status # "read"})]_vars

\* two conversations listed after a deletion, one with an unread message and
\* one holding messages but none unread
C12_Witness ==
    \E w \in Workers :
        /\ pc[w] = "done" /\ req[w].via = "list"
        /\ nextId > Len(store) + 1
        /\ Len(res[w].conversations) = 2
        /\ \E p, q \in 1..2 : /\ res[w].conversations[p].unreadCount = 1
                               /\ res[w].conversations[q].unreadCount = 0

\* C13: in every summary of the conversation list, lastTimestamp is the
\* greatest timestamp among the conversation's non-deleted messages and
\* lastMessage / lastStatus / lastFrom are those of one message that carries
\* it; the summaries come in non-increasing lastTimestamp order.
C13_LastMessageAndOrder ==
    [][\A w \in Workers : Handles(w, "list") =>
          /\ \A p \in 1..Len(Listed(w)) :
                 LET c == Listed(w)[p] IN
                 /\ \A i \in Conversation(c.wa_id) : store[i].timestamp <= c.lastTimestamp
                 /\ \E i \in Conversation(c.wa_id) :
                        /\ store[i].timestamp = c.lastTimestamp
                        /\ store[i].content = c.lastMessage
                        /\ store[i].status = c.lastStatus
                        /\ store[i].from = c.lastFrom
          /\ \A p \in 1..(Len(Listed(w)) - 1) :
                 Listed(w)[p].lastTimestamp >= Listed(w)[p + 1].lastTimestamp]_vars

\* a list of two conversations of different lastTimestamp, the first one
\* holding an older message as well
C13_Witness ==
    \E w \in Workers :
        /\ pc[w] = "done" /\ req[w].via = "list"
        /\ Len(res[w].conversations) = 2
        /\ res[w].conversations[1].lastTimestamp > res[w].conversations[2].lastTimestamp
        /\ \E i \in 1..Len(store) :
              /\ store[i].wa_id = res[w].conversations[1].wa_id
              /\ store[i].timestamp < res[w].conversations[1].lastTimestamp

\* C14: fetching a page of a conversation's messages marks nothing read: it
\* leaves the status of every stored message, and so every conversation's
\* unread count, as it was.
C14_FetchMarksNothingRead ==
    [][\A w \in Workers : Handles(w, "fetch") =>
          /\ Len(store') = Len(store)
          /\ \A i \in 1..Len(store) : store'[i].status = store[i].status
          /\ \A k \in {store[i].wa_id : i \in 1..Len(store)} :
                 UnreadCount(store', k) = UnreadCount(store, k)]_vars

\* the statuses the order allows to advance to read
BelowRead == {"pending", "sent", "delivered"}

\* C15: marking conversation k read moves every message of k that is from
\* remote, not deleted and below read (pending included) to read, changes no
\* message of another conversation and no outgoing message, reports exactly
\* the number of messages whose status it changed, and leaves as unread only
\* the messages the order forbids to advance (failed).
C15_MarkReadAdvancesAll ==
    [][\A w \in Workers : Handles(w, "markRead") =>
          LET k == req[w].payload.wa_id IN
          /\ Len(store') = Len(store)
          /\ \A i \in Conversation(k) :
                 (store[i].from = "remote" /\ store[i].status \in BelowRead)
                     => store'[i].status = "read"
          /\ \A i \in 1..Len(store) :
                 (store[i].wa_id # k \/ store[i].from # "remote") => store'[i] = store[i]
          /\ res'[w].updated =
                 Cardinality({i \in 1..Len(store) : store'[i].status # store[i].status})
          /\ UnreadCount(store', k) =
                 Cardinality({i \in Conversation(k) :
                                 store[i].from = "remote" /\ store[i].status = "failed"})]_vars

\* a step in which a status operation runs to its end: a /webhook status
\* payload, or a mark-read
StatusOperation(w) ==
    \/ Handles(w, "markRead")
    \/ Handles(w, "webhook") /\ IsWebhookStatus(req[w].payload)

\* C16: a status operation emits a message:status_update event for a message
\* only if the operation changed that message's status: a message matched
\* but left as it was, or already read before a mark-read, gets no event.
C16_StatusEventOnlyOnChange ==
    [][\A w \in Workers : StatusOperation(w) =>
          \A n \in 1..Len(io') :
              io'[n].event = "message:status_update" =>
                  \E i \in 1..Len(store) :
                      /\ store[i]._id = io'[n].messageId
                      /\ store'[i].status # store[i].status]_vars

\* the _ids of the documents this step added to the collection
Inserted == {store'[i]._id : i \in 1..Len(store')} \ {store[i]._id : i \in 1..Len(store)}
\* the message:new broadcasts of this step
Announced == {n \in 1..Len(io') : io'[n].event = "message:new" /\ io'[n].to = "all"}

\* C17: a message:new event is emitted only after a successful insert: the
\* message it carries is in the repository when it is emitted; every message
\* the /webhook route or POST /messages inserts is announced by one
\* broadcast; an insert that failed is announced by none.
C17_CreatedOnlyAfterInsert ==
    [][/\ \A n \in 1..Len(io') :
              io'[n].event = "message:new" =>
                  \E i \in 1..Len(store') : store'[i] = io'[n].message
       /\ \A w \in Workers : (Handles(w, "webhook") \/ Handles(w, "send")) =>
              /\ \A id \in Inserted :
                     Cardinality({n \in Announced : io'[n].message._id = id}) = 1
              /\ \A n \in Announced : io'[n].message._id \in Inserted]_vars

\* a /webhook batch that stored and announced its first entry and failed on
\* its second
C17_Witness ==
    \E w \in Workers :
        /\ pc[w] = "done" /\ req[w].via = "webhook"
        /\ res[w].code = 500
        /\ Len(io) = 2
        /\ io[1].event = "message:new"
        /\ \E i \in 1..Len(store) : store[i] = io[1].message

\* the stored message with _id id, if it is (still) stored
StoredAt(id) == {i \in 1..Len(store) : store[i]._id = id}
\* the delivery timer of message id is pending
TimerPending(id) == \E tm \in timers : tm._id = id
\* this step is the firing of a delivery timer
TimerFires == timers' # timers /\ timers' \subseteq timers

\* C18: a local send that succeeds stores the message as outgoing (from me)
\* at status sent, announces it and arms its delivery timer; the timer firing,
\* a message that still exists eventually is at delivered (or later); and
\* the delivered status_update comes strictly after the message:new of that
\* message: it is emitted by the firing of a timer armed in an earlier step,
\* the step that emitted message:new.
C18_SimulatedDelivery ==
    /\ [][/\ \A w \in Workers : (Handles(w, "send") /\ res'[w].code = 200) =>
                 LET m == store'[Len(store')] IN
                 /\ Len(store') = Len(store) + 1
                 /\ m._id = res'[w].messageId
                 /\ m.from = "me" /\ m.status = "sent"
                 /\ m.wa_id = req[w].payload.wa_id
                 /\ TimerFor(m) \in timers'
          /\ \A tm \in timers' \ timers :
                 \E n \in 1..Len(io') : /\ io'[n].event = "message:new"
                                        /\ io'[n].message._id = tm._id
          /\ TimerFires =>
                 \A n \in 1..Len(io') :
                     /\ io'[n].event = "message:status_update"
                     /\ io'[n].status = "delivered"
                     /\ TimerPending(io'[n].messageId)
                     /\ \A i \in StoredAt(io'[n].messageId) : store'[i].status = "delivered"]_vars
    /\ \A id \in MessageIds :
           TimerPending(id) ~>
               (\A i \in StoredAt(id) : store[i].status \in {"delivered", "read"})

\* the timer of a locally sent message has fired: the message is outgoing, at
\* delivered, and the step emitted its delivered status_update
C18_Witness ==
    /\ timers = {}
    /\ Len(io) = 2
    /\ io[1].event = "message:status_update" /\ io[1].status = "delivered"
    /\ \E i \in StoredAt(io[1].messageId) :
          store[i].from = "me" /\ store[i].status = "delivered"

\* a message-like object with no text, body, content or caption
TextFields == {"text", "text_body", "body_text", "content", "caption"}
LacksText(m) == DOMAIN m \cap TextFields = {}

\* C19: content is never empty: for a message-like input without explicit
\* text, the document an ingestion entry point builds has non-empty content
\* (a media marker when a non-text type marker is there, else the raw-JSON
\* rendering), and so no stored message has empty content.
C19_ContentNeverEmpty ==
    [][/\ \A w \in Workers : (HandlesMessages(w) /\ Len(req[w].payload.messages) = 1) =>
              LET m == req[w].payload.messages[1]
                  content == DocFor(req[w].via, m, req[w].payload, now).content IN
              LacksText(m) =>
                  /\ content # Absent
                  /\ content = IF F(m, "type") \notin {Absent, "text"}
                               THEN MediaMarker(F(m, "type")) ELSE FallbackJson
       /\ \A i \in 1..Len(store') : store'[i].content # Absent]_vars

\* a payload with a messages collection or the message type marker, and with
\* a statuses collection, the status type marker or a status-update field
IsBoth(payload) ==
    /\ "messages" \in DOMAIN payload \/ F(payload, "type") = "message"
    /\ \/ "statuses" \in DOMAIN payload
       \/ F(payload, "type") = "status"
       \/ F(payload, "status_update") # Absent

\* C20: classification is first match wins, the message rule first: a
\* payload that is both a message batch and a status batch is handled as a
\* message batch only: every entry is counted as inserted, duplicate or
\* error, no update is counted, and no stored message is changed.
C20_MessageRuleFirst ==
    [][\A w \in Workers :
          (/\ Handles(w, "script") \/ Handles(w, "webhook")
           /\ IsBoth(req[w].payload))
              => /\ SubSeq(store', 1, Len(store)) = store
                 /\ req[w].via = "script" =>
                        /\ res'[w].updated = 0
                        /\ res'[w].inserted + res'[w].duplicates + res'[w].errors
                               = Len(MessagesOf(req[w].payload))
                 /\ req[w].via = "webhook" =>
                        /\ res'[w].matched = Unset
                        /\ res'[w].code = 200 =>
                               res'[w].inserted = Len(WebhookMessagesOf(req[w].payload))]_vars

\* such a payload, naming with status read a stored message that is not
\* read, was handled by the route: its message was inserted (after the named
\* one), the named one is as it was
C20_Witness ==
    \E w \in Workers :
        /\ pc[w] = "done" /\ req[w].via = "webhook"
        /\ "messages" \in DOMAIN req[w].payload
        /\ IsBoth(req[w].payload)
        /\ res[w].inserted = 1
        /\ Len(store) >= 2
        /\ store[1].msg_id = "a" /\ store[1].status = "sent"

\* the payload objects an array payload holds, nested arrays flattened
RECURSIVE Flatten(_)
RECURSIVE FlattenFrom(_, _)
FlattenFrom(items, i) ==
    IF i > Len(items) THEN << >> ELSE Flatten(items[i]) \o FlattenFrom(items, i + 1)
Flatten(payload) == IF IsArray(payload) THEN FlattenFrom(payload.array, 1) ELSE << payload >>

AddResults(a, b) ==
    [inserted |-> a.inserted + b.inserted, updated |-> a.updated + b.updated,
     errors |-> a.errors + b.errors, duplicates |-> a.duplicates + b.duplicates]

\* the payload objects ingested one after the other, their results summed
RECURSIVE SumOfElements(_, _, _, _)
SumOfElements(st, items, t, i) ==
    IF i > Len(items) THEN st
    ELSE LET r == processPayload([store |-> st.store, nextId |-> st.nextId,
                                  res |-> NoResults], items[i], t) IN
         SumOfElements([store |-> r.store, nextId |-> r.nextId,
                        res |-> AddResults(st.res, r.res)], items, t, i + 1)

\* C21: a payload that is an array (or nested arrays) of payload objects is
\* ingested element by element, and the results returned for it have
\* inserted, updated, duplicates and errors each equal to the sum of the
\* counts of its elements.
C21_ArrayResultsSummed ==
    [][\A w \in Workers : (Handles(w, "script") /\ IsArray(req[w].payload)) =>
          LET sum == SumOfElements([store |-> store, nextId |-> nextId, res |-> NoResults],
                                   Flatten(req[w].payload), now, 1) IN
          /\ store' = sum.store
          /\ res'[w] = sum.res]_vars

\* a payload matching none of the message, status, contact and sequence rules
MatchesNoRule(payload) ==
    /\ ~IsMessagePayload(payload) /\ ~IsStatusPayload(payload)
    /\ "contacts" \notin DOMAIN payload /\ ~IsArray(payload)
\* ... that exposes an identifier-like or content-like field
Exposes(payload) ==
    FirstOf(<< F(payload, "id"), F(payload, "message_id"),
               F(payload, "content"), F(payload, "text") >>) # Absent

\* C22: a payload matching no rule is treated as a single implicit message
\* when it exposes an id, message_id, content or text field (one entry is
\* processed: inserted, found duplicate, or failed at the insert); otherwise
\* it is unrecognized: counted as one error (status 400 from the route), the
\* repository is unchanged and no event is emitted.
C22_UnknownFallback ==
    [][\A w \in Workers :
          (/\ Handles(w, "script") \/ Handles(w, "webhook")
           /\ MatchesNoRule(req[w].payload))
              => IF Exposes(req[w].payload)
                 THEN /\ req[w].via = "script" =>
                             /\ res'[w].inserted + res'[w].duplicates + res'[w].errors = 1
                             /\ res'[w].errors = 1 =>
                                    ~Valid(createMessageDocument(req[w].payload, req[w].payload, now))
                      /\ req[w].via = "webhook" => res'[w].code # 400
                 ELSE /\ req[w].via = "script" => res'[w].errors = 1
                      /\ req[w].via = "webhook" => res'[w].code = 400
                      /\ store' = store
                      /\ io' = << >>]_vars

\* a transition the status order allows: strictly forward in
\* pending < sent < delivered < read, or into failed from pending or sent
Forward(cur, s) ==
    \/ cur \in Ordered /\ s \in Ordered /\ Rank(s) > Rank(cur)
    \/ s = "failed" /\ cur \in {"pending", "sent"}

\* a payload handled as a collection of status entries
IsStatusBatch(payload) == ~IsMessagePayload(payload) /\ "statuses" \in DOMAIN payload
\* the entries of the collection that carry a usable identifier and name message i
EntriesFor(docs, i, payload) ==
    {k \in 1..Len(payload.statuses) :
        /\ ScriptStatusIdOf(payload.statuses[k], payload) # Absent
        /\ i \in ScriptMatchId(docs, ScriptStatusIdOf(payload.statuses[k], payload))}

\* C23: a status entry without a usable identifier is skipped and is not
\* fatal: in a statuses collection holding such an entry (and no entry the
\* repository rejects), a stored message no identified entry names is left
\* unchanged, and a message the identified entries name, before or after
\* the skipped one, takes their status when that is a forward transition.
C23_NoIdentifierSkipped ==
    [][\A w \in Workers :
          (/\ Handles(w, "script") \/ Handles(w, "webhook")
           /\ IsStatusBatch(req[w].payload)
           /\ \E k \in 1..Len(req[w].payload.statuses) :
                  ScriptStatusIdOf(req[w].payload.statuses[k], req[w].payload) = Absent
           /\ \A k \in 1..Len(req[w].payload.statuses) :
                  ~StatusThrows(req[w].payload.statuses[k], req[w].payload))
              => \A i \in 1..Len(store) :
                     LET ks == EntriesFor(store, i, req[w].payload) IN
                     /\ ks = {} => store'[i] = store[i]
                     /\ \A s \in ApplyValues :
                            (/\ ks # {}
                             /\ \A k \in ks :
                                    ScriptStatusOf(req[w].payload.statuses[k], req[w].payload) = s
                             /\ Forward(store[i].status, s))
                                => store'[i].status = s]_vars

\* the entries of a statuses collection whose repository update fails
FailingStatuses(payload) ==
    {k \in 1..Len(payload.statuses) : StatusThrows(payload.statuses[k], payload)}
\* the entries of a messages collection whose insert fails
FailingMessages(via, payload, t) ==
    {k \in 1..Len(payload.messages) : ~Valid(DocFor(via, payload.messages[k], payload, t))}

\* C24: a repository failure is fatal to its entry, not to the batch: when
\* the update fails for an entry of a statuses collection, each failure is
\* counted as one error and the other entries are still applied (a message
\* they name takes their status when that is a forward transition); when the
\* insert fails for an entry of a messages collection, each failure is one
\* error and every other entry is still inserted or found duplicate.
C24_FailureFatalToEntryOnly ==
    [][\A w \in Workers :
          /\ (/\ Handles(w, "script") \/ Handles(w, "webhook")
              /\ IsStatusBatch(req[w].payload)
              /\ FailingStatuses(req[w].payload) # {})
                 => /\ req[w].via = "script" =>
                           res'[w].errors = Cardinality(FailingStatuses(req[w].payload))
                    /\ \A i \in 1..Len(store), s \in ApplyValues :
                           LET ks == EntriesFor(store, i, req[w].payload)
                                         \ FailingStatuses(req[w].payload) IN
                           (/\ ks # {}
                            /\ \A k \in ks :
                                   ScriptStatusOf(req[w].payload.statuses[k], req[w].payload) = s
                            /\ Forward(store[i].status, s))
                               => store'[i].status = s
          /\ (/\ HandlesMessages(w)
              /\ FailingMessages(req[w].via, req[w].payload, now) # {})
                 => LET failed == Cardinality(FailingMessages(req[w].via, req[w].payload, now))
                        N == Len(req[w].payload.messages) IN
                    /\ req[w].via = "script" =>
                           /\ res'[w].errors = failed
                           /\ res'[w].inserted + res'[w].duplicates = N - failed
                    /\ req[w].via = "webhook" =>
                           /\ res'[w].code = 200
                           /\ res'[w].inserted = N - failed]_vars

\* the paths of a stored message that may change after its creation (status,
\* deliveredAt, readAt, isDeleted; the model holds no isStarred), and
\* updatedAt, the storage layer's own bookkeeping
MutablePaths == {"status", "delivered_at", "read_at", "is_deleted", "updatedAt"}

\* C25: post-creation immutability: over any step (a webhook or script
\* status update, a fetch, a mark-read, a simulated delivery, an insert), a
\* stored message that is still stored keeps its wa_id, from, timestamp,
\* msg_id, meta_msg_id and content, and every other path outside status,
\* deliveredAt, readAt and isDeleted.
C25_PostCreationImmutability ==
    [][\A i \in 1..Len(store), j \in 1..Len(store') :
          store[i]._id = store'[j]._id =>
              /\ \A f \in {"wa_id", "from", "timestamp", "msg_id", "meta_msg_id", "content"} :
                     store'[j][f] = store[i][f]
              /\ \A f \in (DOMAIN store[i]) \ MutablePaths : store'[j][f] = store[i][f]]_vars

\* a received message was moved to read and a locally sent one to delivered
C25_Witness ==
    \E i, j \in 1..Len(store) :
        /\ store[i].from = "remote" /\ store[i].status = "read"
        /\ store[i].timestamp = 1700000
        /\ store[j].from = "me" /\ store[j].status = "delivered"

\* the stored messages identifier x names: msg_id or meta_msg_id equal to x,
\* and the record whose handle is x when x is shaped like a handle
Named(docs, x) ==
    {i \in 1..Len(docs) : \/ docs[i].msg_id = x
                          \/ docs[i].meta_msg_id = x
                          \/ IsValidObjectId(x) /\ ObjectIdOf(docs[i]._id) = x}

\* C26: a status update with identifier X is applied to exactly the stored
\* messages X names: each of them takes the status (when that is a forward
\* transition), every other stored message is left unchanged, and the
\* matched count the route reports is the number of messages X names.
C26_AppliedToExactlyNamed ==
    [][\A w \in Workers, s \in ApplyValues : AppliesStatus(w, s) =>
          LET named == Named(store, StatusIdOf(req[w].payload)) IN
          /\ \A i \in named : Forward(store[i].status, s) => store'[i].status = s
          /\ \A i \in (1..Len(store)) \ named : store'[i] = store[i]
          /\ req[w].via = "webhook" => res'[w].matched = Cardinality(named)]_vars

\* C27: failed is reachable from pending or sent only: a stored message at
\* delivered or read that a `failed` status update names keeps its status,
\* and over no step does a message at delivered or read become failed.
C27_FailedOnlyFromPendingOrSent ==
    [][/\ \A w \in Workers : AppliesStatus(w, "failed") =>
              \A i \in Named(store, StatusIdOf(req[w].payload)) :
                  store[i].status \in {"delivered", "read"}
                      => store'[i].status = store[i].status
       /\ \A i \in 1..Len(store) :
              store[i].status \in {"delivered", "read"} => store'[i].status # "failed"]_vars

\* the media in the priority order of content-type inference
MediaPriority == << "image", "audio", "video", "document" >>
CarriedMedia(m) == {k \in 1..Len(MediaPriority) : MediaPriority[k] \in DOMAIN m}
HighestMedium(m) ==
    MediaPriority[CHOOSE k \in CarriedMedia(m) : \A j \in CarriedMedia(m) : k <= j]

\* C28: content-type inference follows image > audio > video > document: a
\* message without a type field that carries more than one medium
\* sub-object is stored with the contentType, mediaUrl (link, else url) and
\* mediaMimeType of the highest-priority medium it carries.
C28_MediaPriority ==
    [][\A w \in Workers : (Handles(w, "script") /\ IsSingle(w)) =>
          LET m == SingleMessage(w) IN
          (/\ "type" \notin DOMAIN m
           /\ Cardinality(CarriedMedia(m)) > 1
           /\ Len(store') = Len(store) + 1)
              => LET new == store'[Len(store')]
                     sub == m[HighestMedium(m)] IN
                 /\ new.content_type = HighestMedium(m)
                 /\ new.media_url = FirstOf(<< F(sub, "link"), F(sub, "url") >>)
                 /\ new.media_mime_type = F(sub, "mime_type")]_vars

\* C29: timestamp fallback: a message (otherwise valid) whose timestamp is
\* absent or is a string that is no calendar timestamp is stored, with the
\* ingestion time as its timestamp; and no stored message has an invalid or
\* missing timestamp.
C29_TimestampFallback ==
    [][/\ \A w \in Workers : (HandlesMessages(w) /\ IsSingle(w)) =>
              LET m == SingleMessage(w)
                  doc == DocFor(req[w].via, m, req[w].payload, now) IN
              (/\ Timestamp(m) \in {0, NotADate}
               /\ LacksIds(m)
               /\ Valid([doc EXCEPT !.timestamp = now]))
                  => /\ Len(store') = Len(store) + 1
                     /\ store'[Len(store')].timestamp = now
       /\ \A i \in 1..Len(store') : store'[i].timestamp >= 0]_vars

\* the conversation's messages ranked newest-first: the sequences of all its
\* stored positions in non-increasing order of timestamp
Rankings(docs, k) ==
    LET conv == {i \in 1..Len(docs) : docs[i].wa_id = k} IN
    {r \in [1..Cardinality(conv) -> conv] :
        /\ \A a, b \in 1..Cardinality(conv) : a # b => r[a] # r[b]
        /\ \A a \in 1..(Cardinality(conv) - 1) : docs[r[a]].timestamp >= docs[r[a + 1]].timestamp}

\* C30: listMessages(key, page, pageSize) returns messages of conversation
\* key only, oldest first (non-decreasing timestamp) within the page; page p
\* holds exactly the messages ranked (p-1)*pageSize+1 .. p*pageSize in a
\* newest-first ranking of the conversation; and with a `before` anchor it
\* returns only messages whose timestamp is strictly less than the anchor
\* message's.
C30_ListMessagesPage ==
    [][\A w \in Workers : Handles(w, "fetch") =>
          LET q == req[w].payload
              page == res'[w].messages
              first == (PageParam(q) - 1) * LimitParam(q) + 1
              last == PageParam(q) * LimitParam(q) IN
          /\ \A k \in 1..Len(page) : page[k].wa_id = q.wa_id
          /\ \A k \in 1..(Len(page) - 1) : page[k].timestamp <= page[k + 1].timestamp
          /\ \E r \in Rankings(store, q.wa_id) :
                 LET slice == {n \in first..last : n <= Len(r)} IN
                 /\ Len(page) = Cardinality(slice)
                 /\ \A n \in slice : page[Len(page) - (n - first)] = store[r[n]]
          /\ "before" \in DOMAIN q =>
                 \A i \in 1..Len(store) : store[i]._id = q.before =>
                     \A k \in 1..Len(page) : page[k].timestamp < store[i].timestamp]_vars

\* C31: per-entry batch accounting: for a messages collection of N entries,
\* each entry is counted in exactly one of inserted, duplicates and errors
\* (their sum is N; the route reports inserted only, and none with an error
\* response), and the number of messages added to the repository is the
\* reported inserted.
C31_BatchAccounting ==
    [][\A w \in Workers : HandlesMessages(w) =>
          LET N == Len(req[w].payload.messages)
              added == Len(store') - Len(store) IN
          /\ SubSeq(store', 1, Len(store)) = store
          /\ req[w].via = "script" =>
                 /\ res'[w].inserted + res'[w].duplicates + res'[w].errors = N
                 /\ res'[w].inserted = added
          /\ req[w].via = "webhook" =>
                 /\ added = IF res'[w].code = 200 THEN res'[w].inserted ELSE 0
                 /\ res'[w].code = 200 => res'[w].inserted = N]_vars

\* a structured result of each entry point
IsResponse(r) == r.code \in {200, 400, 500}
IsResults(r) ==
    /\ DOMAIN r = {"inserted", "updated", "duplicates", "errors"}
    /\ \A f \in DOMAIN r : r[f] \in Nat

\* C32: every ingestion ends with exactly one structured result: whatever
\* the payload received and the repository's contents, the /webhook handler
\* run on it answers with status 200, 400 or 500 and processPayload returns
\* an object of four counts; the result a handler gave is the one it was
\* computed to give, and it stands until the request is over.
C32_OneStructuredResult ==
    [][\A w \in Workers :
          /\ (pc[w] = "recv" /\ req[w].via = "webhook") =>
                 IsResponse(WebhookHandler(store, nextId, req[w].payload, now).res)
          /\ (pc[w] = "recv" /\ req[w].via = "script") =>
                 IsResults(processPayload([store |-> store, nextId |-> nextId,
                                           res |-> NoResults], req[w].payload, now).res)
          /\ Handles(w, "webhook") => IsResponse(res'[w])
          /\ Handles(w, "script") => IsResults(res'[w])
          /\ (pc[w] = "done" /\ pc'[w] = "done") => res'[w] = res[w]]_vars

\* both entry points gave their result for a repository call that failed:
\* a 500 answer, and one error counted
C32_Witness ==
    \E w \in Workers :
        /\ pc[w] = "done"
        /\ \/ req[w].via = "webhook" /\ res[w].code = 500 /\ Len(store) > 0
           \/ /\ req[w].via = "script" /\ "statuses" \in DOMAIN req[w].payload
              /\ res[w].errors = 1

\* this step is the firing of the delivery timer of message id
TimerFiresFor(id) == \E tm \in timers \ timers' : tm._id = id

\* C33: simulated delivery does not regress status: when the delivery timer
\* of a locally sent message fires after the message was advanced to read,
\* the stored status is still read and no delivered status_update is
\* emitted for it.
C33_DeliveryDoesNotRegress ==
    [][\A id \in MessageIds : TimerFiresFor(id) =>
          \A i \in StoredAt(id) :
              store[i].status = "read" =>
                  /\ store'[i].status = "read"
                  /\ \A n \in 1..Len(io') :
                         ~(/\ io'[n].event = "message:status_update"
                           /\ io'[n].messageId = id
                           /\ io'[n].status = "delivered")]_vars

\* C34: status domain: every stored message's status is one of pending,
\* sent, delivered, read, failed; a status payload carrying any other value
\* (directly or under status_update) changes no stored message.
C34_StatusDomain ==
    \A i \in 1..Len(store) : store[i].status \in StatusEnum

\* C35: no status event for a message that no longer exists: every
\* message:status_update event emitted by a step names a message that is in
\* the repository when it is emitted; in particular the delivery timer of a
\* message deleted in the meantime emits none.
C35_NoEventForDeletedMessage ==
    [][\A n \in 1..Len(io') :
          io'[n].event = "message:status_update" =>
              \E i \in 1..Len(store') : store'[i]._id = io'[n].messageId]_vars

\* the message's msg_id was generated, not taken from a payload
HasGeneratedId(m) == \E n \in 1..Len(GenMsgIds) : m.msg_id = GenMsgIds[n]

\* C36: every stored message is addressable by a status update: each stored
\* message has a non-empty msg_id or meta_msg_id, and two messages stored
\* without payload identifiers never share a generated msg_id.
C36_AddressableAndDistinct ==
    /\ \A i \in 1..Len(store) :
           store[i].msg_id # Absent \/ store[i].meta_msg_id # Absent
    /\ \A i, j \in 1..Len(store) :
           (i # j /\ HasGeneratedId(store[i]) /\ HasGeneratedId(store[j]))
               => store[i].msg_id # store[j].msg_id

\* the body of a send the claim calls rejected: no wa_id, or content that is
\* missing, empty or whitespace-only
RejectedSend(body) ==
    \/ F(body, "wa_id") = Absent
    \/ F(body, "content") = Absent
    \/ trim(F(body, "content")) = Absent

\* C39: rejected sends have no effect: a POST /messages whose wa_id is
\* missing, or whose content is missing, empty or whitespace-only, stores no
\* message, emits no message:new event, schedules no delivery timer and is
\* answered with a 400-class result.
C39_RejectedSendNoEffect ==
    [][\A w \in Workers :
          (Handles(w, "send") /\ RejectedSend(req[w].payload)) =>
              /\ store' = store
              /\ io' = << >>
              /\ timers' = timers
              /\ res'[w].code = 400]_vars

\* every request of the window is answered and every socket event handled
Quiet ==
    /\ client.inbox = << >>
    /\ \A w \in Workers : pc[w] = "idle"
    /\ ~client.load

\* the entry stands for stored message m: it carries its _id, or it is the
\* optimistic entry of its send
EntryOf(e, m) ==
    \/ e._id = m._id
    \/ IsTempId(e._id) /\ e.wa_id = m.wa_id /\ e.content = m.content /\ m.from = "me"

\* C37: the open chat window shows each sent message once: when the HTTP
\* response and the message:new events of the window's sends have been
\* processed, in either order, the list holds exactly one entry for each of
\* them, and never two entries with the same _id of a stored message.
C37_SentMessageShownOnce ==
    /\ \A a, b \in 1..Len(client.messages) :
           (a # b /\ ~IsTempId(client.messages[a]._id))
               => client.messages[a]._id # client.messages[b]._id
    /\ (Quiet /\ client.active # Absent) =>
           \A i \in 1..Len(store) :
               (store[i].wa_id = client.active /\ store[i].from = "me") =>
                   Cardinality({n \in 1..Len(client.messages) :
                                   EntryOf(client.messages[n], store[i])}) = 1

\* C38: room membership tracks the active chat: the socket is in at most one
\* chat room at any time, and once the server has handled the emits of the
\* select-chat and back-to-list actions it is in room chat_<k> exactly when k
\* is the active conversation, and in none when no chat is active.
C38_RoomTracksActiveChat ==
    /\ Cardinality(client.rooms) <= 1
    /\ client.wire = << >> =>
           client.rooms = (IF client.active = Absent THEN {} ELSE {client.active})

\* the browser moved to a chat and the server has handled the leave and join
C38_Witness ==
    /\ client.wire = << >>
    /\ client.active = Other
    /\ client.rooms = {Other}

====
